---------------------------- MODULE Spec2Model ----------------------------
(***************************************************************************)
(* Model of the Programming Activity System (src/main.cpp): a console menu *)
(* program reading std::cin.  The state is the unread part of the input    *)
(* stream, the position of the program (the blocking read it is waiting    *)
(* at, with its call stack), the program's variables and the text the last *)
(* step printed.  One action is one step of the program from one blocking  *)
(* read to the next.                                                       *)
(*                                                                         *)
(* Characters are one-character strings; the input stream and a printed    *)
(* number are sequences of characters.  A double is the IEEE 754 binary64  *)
(* number the program holds (sign, mantissa, binary exponent), and the     *)
(* arithmetic on doubles rounds as the hardware does.                      *)
(***************************************************************************)
EXTENDS Integers, Sequences, FiniteSets, TLC

VARIABLES
  pc,          \* the blocking read the program is at, or "done"
  stack,       \* call stack: the run() methods that are active
  inp,         \* std::cin: characters typed and not yet consumed
  eof,         \* std::cin: the input has ended
  typed,       \* number of lines typed so far
  line,        \* the input line under the read cursor: what was consumed of it
  rd,          \* the last validated read attempt and what it consumed
  out,         \* what the last program step printed and invoked
  fmt,         \* std::cout format state (floatfield, precision, adjustfield)
  mainChoice,  \* Program::run menuChoice
  triChoice,   \* TriangleLoopActivity::run menuChoice   (locals are 0 while
  height,      \* TriangleLoopActivity::run height        their function is
  curChoice,   \* CurrencyExchangeCalculator::run menuChoice    not active)
  gi,          \* StudentGradeEvaluator::run loop index i
  sum,         \* StudentGradeEvaluator::run sum
  grades,      \* StudentGradeEvaluator::run grades[i].value
  amountInPHP, \* convertCurrency amountInPHP
  exitCode     \* -1 while running, the return value of main afterwards

vars == <<pc, stack, inp, eof, typed, line, rd, out, fmt, mainChoice,
          triChoice, height, curChoice, gi, sum, grades, amountInPHP, exitCode>>

---------------------------------------------------------------------------
(* Bounds *)

\* number of input lines the user types in one run
MaxLines == 6

---------------------------------------------------------------------------
(* Evaluation order *)

\* F applied to the value of v (of v and w): the argument is computed
\* before F is entered
With(v, F(_)) == CHOOSE res \in {F(h) : h \in {v}} : TRUE
With2(v, w, F(_, _)) == CHOOSE res \in {F(h[1], h[2]) : h \in {<<v, w>>}} : TRUE

---------------------------------------------------------------------------
(* Natural numbers of any size *)

\* a natural number as the sequence of its digits in base LimbBase, least
\* significant first, without leading zeros (0 is the empty sequence)
LimbBits == 15
LimbBase == 32768

RECURSIVE Pow2(_)
Pow2(n) == IF n = 0 THEN 1 ELSE 2 * Pow2(n - 1)

\* a without leading zero limbs
BigTrim(a) ==
  SubSeq(a, 1, CHOOSE n \in 0..Len(a) :
                 (n = 0 \/ a[n] # 0) /\ \A j \in (n + 1)..Len(a) : a[j] = 0)

\* the natural number 0 <= n < 2^31
Big(n) ==
  BigTrim(<<n % LimbBase, (n \div LimbBase) % LimbBase,
            n \div (LimbBase * LimbBase)>>)

Limb(a, i) == IF i <= Len(a) THEN a[i] ELSE 0

\* a + b: limb i receives a carry when a limb below it overflows and those
\* between are full
BigAdd(a, b) ==
  BigTrim([i \in 1..((IF Len(a) > Len(b) THEN Len(a) ELSE Len(b)) + 1) |->
            (Limb(a, i) + Limb(b, i)
             + (IF \E j \in 1..(i - 1) :
                      /\ Limb(a, j) + Limb(b, j) >= LimbBase
                      /\ \A k \in (j + 1)..(i - 1) :
                            Limb(a, k) + Limb(b, k) = LimbBase - 1
                THEN 1 ELSE 0)) % LimbBase])

\* a - b for a >= b: limb i gives a borrow when a limb below it is short
\* and those between are level
BigSub(a, b) ==
  BigTrim([i \in 1..Len(a) |->
            (a[i] - Limb(b, i) + LimbBase
             - (IF \E j \in 1..(i - 1) :
                      /\ a[j] < Limb(b, j)
                      /\ \A k \in (j + 1)..(i - 1) : a[k] = Limb(b, k)
                THEN 1 ELSE 0)) % LimbBase])

\* -1, 0, 1 as a < b, a = b, a > b
BigCmp(a, b) ==
  IF Len(a) # Len(b) THEN (IF Len(a) < Len(b) THEN -1 ELSE 1)
  ELSE IF a = b THEN 0
  ELSE IF \E k \in 1..Len(a) :
            a[k] < b[k] /\ \A j \in (k + 1)..Len(a) : a[j] = b[j]
       THEN -1 ELSE 1

\* a * LimbBase^n
BigShiftLimbs(a, n) == IF a = <<>> THEN <<>> ELSE [i \in 1..n |-> 0] \o a

\* the number whose limb i is t[i], for limbs t below LimbBase^2: limb i
\* collects the low half of t[i], the high half of t[i - 1] and a carry,
\* which arrives when a limb below overflows and those between are full
WideLimb(t, i) ==
  (IF i <= Len(t) THEN t[i] % LimbBase ELSE 0)
  + (IF i > 1 THEN t[i - 1] \div LimbBase ELSE 0)

BigOfWide(t) ==
  BigTrim([i \in 1..(Len(t) + 1) |->
            (WideLimb(t, i)
             + (IF \E j \in 1..(i - 1) :
                      /\ WideLimb(t, j) >= LimbBase
                      /\ \A k \in (j + 1)..(i - 1) : WideLimb(t, k) = LimbBase - 1
                THEN 1 ELSE 0)) % LimbBase])

\* a * k for 0 <= k < LimbBase
BigMulSmall(a, k) ==
  IF k = 1 THEN a ELSE BigOfWide([i \in 1..Len(a) |-> a[i] * k])

\* the sum over i in lo..hi of the low (w = 0) or high (w = 1) half of the
\* limb product a[i] * b[k + 1 - i]
RECURSIVE BigColumn(_, _, _, _, _, _)
BigColumn(a, b, k, w, lo, hi) ==
  IF lo > hi THEN 0
  ELSE IF lo = hi
    THEN (IF w = 0 THEN (a[lo] * Limb(b, k + 1 - lo)) % LimbBase
          ELSE (a[lo] * Limb(b, k + 1 - lo)) \div LimbBase)
  ELSE BigColumn(a, b, k, w, lo, (lo + hi) \div 2)
       + BigColumn(a, b, k, w, (lo + hi) \div 2 + 1, hi)

\* a * b: limb k of the product collects the low halves of the limb
\* products of column k and the high halves of column k - 1
BigMul(a, b) ==
  IF a = <<>> \/ b = <<>> THEN <<>>
  ELSE BigOfWide(SubSeq([k \in 1..(Len(a) + Len(b)) |->
                  BigColumn(a, b, k, 0, 1, IF k < Len(a) THEN k ELSE Len(a))
                  + BigColumn(a, b, k - 1, 1, 1,
                              IF k - 1 < Len(a) THEN k - 1 ELSE Len(a))],
                1, Len(a) + Len(b)))

\* a * 2^k
BigShl(a, k) ==
  IF k = 0 THEN a
  ELSE With(BigMulSmall(a, Pow2(k % LimbBits)),
            LAMBDA p : BigShiftLimbs(p, k \div LimbBits))

\* a \div 2^k
BigShr(a, k) ==
  IF k \div LimbBits >= Len(a) THEN <<>>
  ELSE BigTrim([i \in 1..(Len(a) - k \div LimbBits) |->
                 a[i + k \div LimbBits] \div Pow2(k % LimbBits)
                 + (Limb(a, i + k \div LimbBits + 1) % Pow2(k % LimbBits))
                   * (LimbBase \div Pow2(k % LimbBits))])

RECURSIVE IntBits(_)
IntBits(n) == IF n = 0 THEN 0 ELSE 1 + IntBits(n \div 2)

\* the number of binary digits of a
BitLen(a) == IF a = <<>> THEN 0 ELSE LimbBits * (Len(a) - 1) + IntBits(a[Len(a)])

\* binary digit n of a (digit 0 is the last)
BigBit(a, n) == (Limb(a, n \div LimbBits + 1) \div Pow2(n % LimbBits)) % 2

\* a % 2^k # 0
BigLowBits(a, k) ==
  \E i \in 1..Len(a) :
     \/ i <= k \div LimbBits /\ a[i] # 0
     \/ i = k \div LimbBits + 1 /\ a[i] % Pow2(k % LimbBits) # 0

\* One step of the long division by b (first limb at least LimbBase / 2):
\* the remainder r < b * LimbBase so far gives the digit q of the quotient,
\* the largest with b * q <= r.  p is b * q for a digit q that is not too
\* small; hq are the digits found before.
RECURSIVE BigDivFit(_, _, _, _, _)
BigDivFit(b, r, q, p, hq) ==
  IF BigCmp(p, r) <= 0 THEN [q |-> <<q>> \o hq, r |-> BigSub(r, p)]
  ELSE With(BigSub(p, b), LAMBDA lower : BigDivFit(b, r, q - 1, lower, hq))

\* the quotient t of the first limbs of r and b is at most 2 above the digit
BigDivStep(b, r, hq) ==
  With((Limb(r, Len(b) + 1) * LimbBase + Limb(r, Len(b))) \div b[Len(b)],
       LAMBDA t :
         With(IF t < LimbBase THEN t ELSE LimbBase - 1,
              LAMBDA q : With(BigMulSmall(b, q),
                              LAMBDA p : BigDivFit(b, r, q, p, hq))))

\* quotient and remainder of a by b (first limb at least LimbBase / 2), for
\* the limbs of a from limb i up
RECURSIVE BigDivLimbs(_, _, _)
BigDivLimbs(a, b, i) ==
  IF i > Len(a) - Len(b) + 1
  THEN [q |-> <<>>, r |-> BigTrim(SubSeq(a, IF i < 1 THEN 1 ELSE i, Len(a)))]
  ELSE With(BigDivLimbs(a, b, i + 1),
            LAMBDA h : BigDivStep(b, BigTrim(<<a[i]>> \o h.r), h.q))

\* quotient and remainder of a by the digit 0 < d < LimbBase, for the limbs
\* of a from limb i up
RECURSIVE BigDivSmall(_, _, _)
BigDivSmall(a, d, i) ==
  IF i > Len(a) THEN [q |-> <<>>, r |-> 0]
  ELSE With(BigDivSmall(a, d, i + 1),
            LAMBDA h : [q |-> <<(h.r * LimbBase + a[i]) \div d>> \o h.q,
                        r |-> (h.r * LimbBase + a[i]) % d])

\* quotient and remainder of a by b > 0
BigDivMod(a, b) ==
  IF Len(b) = 1
  THEN With(BigDivSmall(a, b[1], 1),
            LAMBDA h : [q |-> BigTrim(h.q), r |-> Big(h.r)])
  ELSE With(LimbBits - IntBits(b[Len(b)]),
            LAMBDA s :
              With2(BigShl(a, s), BigShl(b, s),
                    LAMBDA as, bs :
                      With(BigDivLimbs(as, bs, 1),
                           LAMBDA h : [q |-> BigTrim(h.q), r |-> BigShr(h.r, s)])))

\* 10^k
RECURSIVE BigPow10(_)
BigPow10(k) ==
  IF k = 0 THEN <<1>>
  ELSE With(BigPow10(k \div 2),
            LAMBDA h : With(BigMul(h, h),
                            LAMBDA s : IF k % 2 = 1 THEN BigMulSmall(s, 10) ELSE s))

\* a as an integer, for a < 2^31
BigInt(a) == Limb(a, 1) + LimbBase * Limb(a, 2) + LimbBase * LimbBase * Limb(a, 3)

---------------------------------------------------------------------------
(* IEEE 754 binary64 *)

\* A double is [neg, m, e] and stands for (-1)^neg * m * 2^e, with m a
\* natural number of 53 binary digits (fewer only when e = MinExp, and m = 0,
\* e = 0 for zero).  A result too large for a double has e > MaxExp.
MantBits == 53
MinExp == -1074
MaxExp == 971

DblZero(neg) == [neg |-> neg, m |-> <<>>, e |-> 0]

\* the double (-1)^neg * m * 2^e for m of at most 54 binary digits, the 54th
\* only after a carry out of a mantissa of 53 ones
DblCarry(neg, m, e) ==
  IF m = <<>> THEN DblZero(neg)
  ELSE IF BitLen(m) > MantBits THEN [neg |-> neg, m |-> BigShr(m, 1), e |-> e + 1]
  ELSE [neg |-> neg, m |-> m, e |-> e]

\* the double nearest to n * 2^e, ties to even, after sh binary digits of n
\* are dropped; sticky: the number is a little above n * 2^e
DblRoundAt(neg, n, e, sticky, sh) ==
  IF sh <= 0 THEN [neg |-> neg, m |-> BigShl(n, -sh), e |-> e + sh]
  ELSE With(BigShr(n, sh),
            LAMBDA q :
              With(IF /\ BigBit(n, sh - 1) = 1
                      /\ (sticky \/ BigLowBits(n, sh - 1) \/ BigBit(q, 0) = 1)
                   THEN BigAdd(q, <<1>>) ELSE q,
                   LAMBDA m : DblCarry(neg, m, e + sh)))

DblRound(neg, n, e, sticky) ==
  IF n = <<>> THEN DblZero(neg)
  ELSE DblRoundAt(neg, n, e, sticky,
                  IF BitLen(n) - MantBits > MinExp - e
                  THEN BitLen(n) - MantBits ELSE MinExp - e)

\* the result is too large for a double
IsInf(x) == x.e > MaxExp

\* the double of an integer
DblOfInt(n) ==
  With(Big(IF n < 0 THEN -n ELSE n), LAMBDA a : DblRound(n < 0, a, 0, FALSE))

DblNeg(x) == [x EXCEPT !.neg = ~x.neg]

\* x * y
DblMul(x, y) ==
  With2(x, y, LAMBDA a, b :
    With(BigMul(a.m, b.m),
         LAMBDA p : DblRound(a.neg # b.neg, p, a.e + b.e, FALSE)))

\* x / y for y # 0: a power of two divides exactly; otherwise the quotient
\* of the mantissas to more than 53 digits
DblDiv(x, y) ==
  With2(x, y, LAMBDA a, b :
    IF BitLen(b.m) = MantBits /\ ~BigLowBits(b.m, MantBits - 1)
    THEN DblRound(a.neg # b.neg, a.m, a.e - b.e - (MantBits - 1), FALSE)
    ELSE With(IF 57 + BitLen(b.m) > BitLen(a.m)
              THEN 57 + BitLen(b.m) - BitLen(a.m) ELSE 0,
              LAMBDA k :
                With(BigShl(a.m, k),
                     LAMBDA n : With(BigDivMod(n, b.m),
                                     LAMBDA dm : DblRound(a.neg # b.neg, dm.q,
                                                          a.e - b.e - k,
                                                          dm.r # <<>>)))))

\* x + y for the mantissas a of x and b of y at the exponent e
DblAddAt(x, y, a, b, e) ==
  IF x.neg = y.neg
  THEN With(BigAdd(a, b), LAMBDA s : DblRound(x.neg, s, e, FALSE))
  ELSE IF BigCmp(a, b) = 0 THEN DblZero(FALSE)
  ELSE IF BigCmp(a, b) > 0
    THEN With(BigSub(a, b), LAMBDA s : DblRound(x.neg, s, e, FALSE))
  ELSE With(BigSub(b, a), LAMBDA s : DblRound(y.neg, s, e, FALSE))

\* x + y
DblAdd(x, y) ==
  With2(x, y, LAMBDA a, b :
    IF a.m = <<>> /\ b.m = <<>> THEN DblZero(a.neg /\ b.neg)
    ELSE IF a.m = <<>> THEN b
    ELSE IF b.m = <<>> THEN a
    ELSE With(IF a.e < b.e THEN a.e ELSE b.e,
              LAMBDA e : With2(BigShl(a.m, a.e - e), BigShl(b.m, b.e - e),
                               LAMBDA am, bm : DblAddAt(a, b, am, bm, e))))

\* x - y
DblSub(x, y) == DblAdd(x, DblNeg(y))

\* -1, 0, 1 as |x| < |y|, |x| = |y|, |x| > |y|: the mantissas have the same
\* number of digits unless an exponent is MinExp
DblCmpAbs(x, y) ==
  IF x.m = <<>> \/ y.m = <<>>
  THEN (IF x.m = y.m THEN 0 ELSE IF x.m = <<>> THEN -1 ELSE 1)
  ELSE IF BitLen(x.m) + x.e # BitLen(y.m) + y.e
  THEN (IF BitLen(x.m) + x.e < BitLen(y.m) + y.e THEN -1 ELSE 1)
  ELSE BigCmp(x.m, y.m)

\* x < y (-0 and 0 are equal)
DblLess(x, y) ==
  With2(x, y, LAMBDA a, b :
    IF a.m = <<>> /\ b.m = <<>> THEN FALSE
    ELSE IF a.neg # b.neg THEN a.neg
    ELSE IF a.neg THEN DblCmpAbs(a, b) > 0
    ELSE DblCmpAbs(a, b) < 0)

\* the double nearest to (-1)^neg * d * 10^x for a natural number d: the
\* product for x >= 0, and for x < 0 the quotient by 10^-x to more than 53
\* binary digits
DblOfDecimal(neg, d, x) ==
  IF d = <<>> THEN DblZero(neg)
  ELSE IF x = 0 THEN DblRound(neg, d, 0, FALSE)
  ELSE With(BigPow10(IF x < 0 THEN -x ELSE x),
            LAMBDA p :
              IF x >= 0
              THEN With(BigMul(d, p), LAMBDA n : DblRound(neg, n, 0, FALSE))
              ELSE With(IF 57 + BitLen(p) > BitLen(d)
                        THEN 57 + BitLen(p) - BitLen(d) ELSE 0,
                        LAMBDA k :
                          With(BigShl(d, k),
                               LAMBDA n :
                                 With(BigDivMod(n, p),
                                      LAMBDA dm : DblRound(neg, dm.q, -k,
                                                           dm.r # <<>>)))))

---------------------------------------------------------------------------
(* Program constants *)

INT_MAX == 2147483647
\* std::numeric_limits<double>::max()
DBL_MAX == [neg |-> FALSE, m |-> <<32767, 32767, 32767, 255>>, e |-> MaxExp]

\* the doubles of the literals 58.2554, 67.6375, 0.3818, 38.3071 and 0.05
USD_RATE == DblOfDecimal(FALSE, Big(582554), -4)
EUR_RATE == DblOfDecimal(FALSE, Big(676375), -4)
JPY_RATE == DblOfDecimal(FALSE, Big(3818), -4)
AUD_RATE == DblOfDecimal(FALSE, Big(383071), -4)
TRANSACTION_FEE_RATE == DblOfDecimal(FALSE, Big(5), -2)

NUMBER_OF_GRADES == 4
PASSING_GRADE == 80
MIN_GRADE == 0
MAX_GRADE == 100
\* the int constants as doubles, where the program converts them: the
\* bounds passed to getValidatedDouble, sum / NUMBER_OF_GRADES and
\* average >= PASSING_GRADE
MinGrade == DblOfInt(MIN_GRADE)
MaxGrade == DblOfInt(MAX_GRADE)
PassingGrade == DblOfInt(PASSING_GRADE)
NumberOfGrades == DblOfInt(NUMBER_OF_GRADES)
\* double sum = 0
NoSum == DblOfInt(0)
\* grades[] as initialised: every value 0
NoGrades == [i \in 1..NUMBER_OF_GRADES |-> DblOfInt(0)]
MIN_HEIGHT == 1
MAX_HEIGHT == 20
MIN_AMOUNT == 100
MAX_AMOUNT == 100000
\* the bounds passed to getValidatedDouble, as doubles
MinAmount == DblOfInt(MIN_AMOUNT)
MaxAmount == DblOfInt(MAX_AMOUNT)
\* amountInPHP while convertCurrency is not active
NoAmount == DblZero(FALSE)
\* the literal 1.0 and the int 100 of displayRates, as doubles
One == DblOfInt(1)
Hundred == DblOfInt(100)
\* the width of the rate column in the table of displayConversion
rate_w == 14

menuItems == <<"Virtual Student Info", "Student Grade Evaluator",
               "Triangle Loop Activity", "Currency Exchange Calculator",
               "Exit Program">>
TriangleOptions == <<"Right Triangle", "Inverted Triangle", "Both", "Exit">>
CurrencyOptions == <<"Exchange Currency", "View Rates", "Exit">>

---------------------------------------------------------------------------
(* Characters *)

NL == "\n"
SP == " "
TAB == "\t"
CR == "\r"
FF == "\f"
VT == ""
\* isspace in the "C" locale: what the formatted-input sentry skips
SpaceChars == {SP, TAB, NL, VT, FF, CR}
IsSpace(c) == c \in SpaceChars

Digits == <<"0", "1", "2", "3", "4", "5", "6", "7", "8", "9">>
IsDigit(c) == \E i \in 1..10 : Digits[i] = c
DigitVal(c) == (CHOOSE i \in 1..10 : Digits[i] = c) - 1

Upper == <<"A", "B", "C", "D", "E", "F", "G", "H", "I", "J", "K", "L", "M",
           "N", "O", "P", "Q", "R", "S", "T", "U", "V", "W", "X", "Y", "Z">>
Lower == <<"a", "b", "c", "d", "e", "f", "g", "h", "i", "j", "k", "l", "m",
           "n", "o", "p", "q", "r", "s", "t", "u", "v", "w", "x", "y", "z">>
\* tolower(c)
ToLower(c) == IF \E i \in 1..26 : Upper[i] = c
              THEN Lower[CHOOSE i \in 1..26 : Upper[i] = c]
              ELSE c
LowerCase(s) == [i \in 1..Len(s) |-> ToLower(s[i])]

Drop(s, n) == SubSeq(s, n + 1, Len(s))
Take(s, n) == SubSeq(s, 1, n)

\* the number of characters of s, from index `from` on, up to the first one
\* that is in the set cs (stop = TRUE) or that is not in it (stop = FALSE)
RunLen(s, from, cs, stop) ==
  CHOOSE n \in 0..(Len(s) - from + 1) :
    /\ \A i \in from..(from + n - 1) : (s[i] \in cs) # stop
    /\ (from + n > Len(s)) \/ ((s[from + n] \in cs) = stop)

DigitChars == {Digits[i] : i \in 1..10}

\* the formatted-input sentry skips leading whitespace
LeadWs(s) == RunLen(s, 1, SpaceChars, FALSE)
HasToken(s) == \E i \in 1..Len(s) : ~IsSpace(s[i])
HasNL(s) == \E i \in 1..Len(s) : s[i] = NL

\* cin.ignore(max, '\n'): drop up to and including the first newline,
\* everything when the input ends before one
Ignore(s) == LET n == RunLen(s, 1, {NL}, TRUE)
             IN  IF n < Len(s) THEN Drop(s, n + 1) ELSE <<>>
IgnoredPart(s) == LET n == RunLen(s, 1, {NL}, TRUE)
                  IN  IF n < Len(s) THEN Take(s, n + 1) ELSE s

---------------------------------------------------------------------------
(* operator>> : what std::num_get and operator>>(string&) extract *)

\* value of a digit string, -1 when it exceeds cap
RECURSIVE DecValue(_, _)
DecValue(ds, cap) ==
  IF ds = <<>> THEN 0
  ELSE LET hi == DecValue(SubSeq(ds, 1, Len(ds) - 1), cap)
           d  == DigitVal(ds[Len(ds)])
       IN  IF hi = -1 \/ hi > (cap - d) \div 10 THEN -1 ELSE hi * 10 + d

StripZeros(ds) == Drop(ds, RunLen(ds, 1, {"0"}, FALSE))
IntMinDigits == <<"2", "1", "4", "7", "4", "8", "3", "6", "4", "8">>

SignLen(t) == IF t # <<>> /\ t[1] \in {"+", "-"} THEN 1 ELSE 0
IsNeg(t) == t # <<>> /\ t[1] = "-"

\* What an extraction gives: fail is the failbit, used the number of
\* characters taken from the stream, val the int and num the double stored.
Extraction(fail, val, num, used) ==
  [fail |-> fail, val |-> val, num |-> num, used |-> used]

\* cin >> int on t (whitespace already skipped): optional sign, then decimal
\* digits up to the first other character.  No digit: failbit, value 0.
\* Out of the range of int: failbit, value INT_MAX or INT_MIN.
ParseInt(t) ==
  LET sg == SignLen(t)
      nd == RunLen(t, sg + 1, DigitChars, FALSE)
      ds == SubSeq(t, sg + 1, sg + nd)
      v  == DecValue(ds, INT_MAX)
  IN  IF nd = 0 THEN Extraction(TRUE, 0, DblZero(FALSE), sg)
      ELSE IF v # -1
        THEN Extraction(FALSE, IF IsNeg(t) THEN -v ELSE v, DblZero(FALSE), sg + nd)
      ELSE IF IsNeg(t) /\ StripZeros(ds) = IntMinDigits
        THEN Extraction(FALSE, -INT_MAX - 1, DblZero(FALSE), sg + nd)
      ELSE Extraction(TRUE, IF IsNeg(t) THEN -INT_MAX - 1 ELSE INT_MAX,
                      DblZero(FALSE), sg + nd)

\* the natural number a digit string denotes
RECURSIVE BigOfDigits(_)
BigOfDigits(ds) ==
  IF Len(ds) <= 9 THEN Big(DecValue(ds, 999999999))
  ELSE With2(BigOfDigits(Take(ds, Len(ds) - 9)),
             Big(DecValue(Drop(ds, Len(ds) - 9), 999999999)),
             LAMBDA hi, lo : BigAdd(BigMul(hi, Big(1000000000)), lo))

\* the value of the digits of an exponent; one of ten digits or more counts
\* as 10^9, which no number of mantissa digits makes up for
ExponentValue(ds) ==
  IF Len(StripZeros(ds)) > 9 THEN 1000000000
  ELSE DecValue(StripZeros(ds), 999999999)

\* strtod on the digits ds (leading zeros removed) times 10^x: the nearest
\* double; a result above DBL_MAX is an overflow, and a number below every
\* positive double is read as zero
StrToD(neg, ds, x) ==
  IF ds = <<>> THEN [over |-> FALSE, num |-> DblZero(neg)]
  ELSE IF Len(ds) + x > 310 THEN [over |-> TRUE, num |-> DblZero(neg)]
  ELSE IF Len(ds) + x < -330 THEN [over |-> FALSE, num |-> DblZero(neg)]
  ELSE With(DblOfDecimal(neg, BigOfDigits(ds), x),
            LAMBDA v : [over |-> IsInf(v), num |-> v])

\* the shape of the floating-point field at the start of t, as num_get
\* accumulates it: optional sign, digits, optional decimal point, digits
\* and, after at least one digit, e or E with an optional sign and digits.
\* sg, ni, dot, nf, sci, es, ne are the lengths of the parts.
FloatField(t) ==
  LET sg   == SignLen(t)
      ni   == RunLen(t, sg + 1, DigitChars, FALSE)
      dot  == IF sg + ni < Len(t) /\ t[sg + ni + 1] = "." THEN 1 ELSE 0
      nf   == IF dot = 1 THEN RunLen(t, sg + ni + 2, DigitChars, FALSE) ELSE 0
      mant == sg + ni + dot + nf
      sci  == IF ni + nf > 0 /\ mant < Len(t) /\ t[mant + 1] \in {"e", "E"}
              THEN 1 ELSE 0
      es   == IF sci = 1 /\ mant + 1 < Len(t) /\ t[mant + 2] \in {"+", "-"}
              THEN 1 ELSE 0
      ne   == IF sci = 1 THEN RunLen(t, mant + 2 + es, DigitChars, FALSE) ELSE 0
  IN  [sg |-> sg, ni |-> ni, dot |-> dot, nf |-> nf, sci |-> sci, es |-> es,
       ne |-> ne, mant |-> mant, used |-> mant + sci + es + ne]

\* cin >> double on t (whitespace already skipped): the field is taken from
\* the stream and converted as strtod does.  A field without a mantissa
\* digit or with an e and no exponent digit: failbit, value 0.  Overflow:
\* failbit, value DBL_MAX or -DBL_MAX.
ParseDouble(t) ==
  With(FloatField(t),
       LAMBDA ff :
         IF ff.ni + ff.nf = 0 \/ (ff.sci = 1 /\ ff.ne = 0)
         THEN Extraction(TRUE, 0, DblZero(FALSE), ff.used)
         ELSE With2(StripZeros(SubSeq(t, ff.sg + 1, ff.sg + ff.ni)
                               \o SubSeq(t, ff.sg + ff.ni + 2, ff.mant)),
                    (IF ff.es = 1 /\ t[ff.mant + 2] = "-" THEN -1 ELSE 1)
                      * ExponentValue(SubSeq(t, ff.mant + 2 + ff.es, ff.used))
                    - ff.nf,
                    LAMBDA ds, x :
                      With(StrToD(IsNeg(t), ds, x),
                           LAMBDA v :
                             IF v.over
                             THEN Extraction(TRUE, 0,
                                    IF IsNeg(t) THEN DblNeg(DBL_MAX) ELSE DBL_MAX,
                                    ff.used)
                             ELSE Extraction(FALSE, 0, v.num, ff.used))))

\* cin >> string on t: the characters up to the next whitespace; it fails
\* only when there is none (end of input)
ParseWord(t) ==
  LET n == RunLen(t, 1, SpaceChars, TRUE)
  IN  Extraction(n = 0, 0, DblZero(FALSE), n)

Parse(T, t) ==
  CASE T = "int"    -> ParseInt(t)
    [] T = "double" -> ParseDouble(t)
    [] T = "string" -> ParseWord(t)

---------------------------------------------------------------------------
(* The line under the read cursor *)

\* pre: what was consumed of the line; rej: a value read from it was
\* rejected; pause: pauseBuffer took its first character; mid: the last read
\* stopped inside a token
NewLine == [pre |-> <<>>, rej |-> FALSE, pause |-> FALSE, mid |-> FALSE]

LastNL(cs) == CHOOSE k \in 1..Len(cs) :
                cs[k] = NL /\ \A j \in (k + 1)..Len(cs) : cs[j] # NL

\* the cursor's line after the characters cs were consumed: a consumed
\* newline starts a fresh line
Advance(ln, cs) ==
  IF HasNL(cs) THEN [NewLine EXCEPT !.pre = Drop(cs, LastNL(cs))]
  ELSE [ln EXCEPT !.pre = @ \o cs]

---------------------------------------------------------------------------
(* InputValidator *)

\* One pass of the loop of getValidated on the stream s: skip whitespace,
\* extract a T; on failbit print the error, clear() and ignore() the rest of
\* the line; w is the number of whitespace characters skipped and p the
\* result of the extraction.  `line` is the cursor's line afterwards, `at` the line the token
\* stands on, `whole` the full text of that line, `text` the characters from
\* the token's start to the next whitespace, `trailing` that the extraction
\* stopped before that whitespace, `rem` that it started inside a token.
Extracted(s, ln, w, p) ==
  LET t    == Drop(s, w)
      at   == Advance(ln, Take(s, w))
      tail == Drop(t, p.used)
      rest == IF p.fail THEN Ignore(tail) ELSE tail
      gone == IF p.fail THEN Take(t, p.used) \o IgnoredPart(tail)
              ELSE Take(t, p.used)
      trl  == ~p.fail /\ tail # <<>> /\ ~IsSpace(tail[1])
  IN  [fail     |-> p.fail,
       val      |-> p.val,
       num      |-> p.num,
       tok      |-> Take(t, p.used),
       rest     |-> rest,
       at       |-> at,
       line     |-> [Advance([at EXCEPT !.rej = @ \/ p.fail], gone)
                       EXCEPT !.mid = trl],
       whole    |-> at.pre \o Take(t, RunLen(t, 1, {NL}, TRUE)),
       text     |-> Take(t, RunLen(t, 1, SpaceChars, TRUE)),
       trailing |-> trl,
       rem      |-> w = 0 /\ ln.mid]

getValidated(T, s, ln) ==
  With(LeadWs(s),
       LAMBDA w : With(Parse(T, Drop(s, w)), LAMBDA p : Extracted(s, ln, w, p)))

\* a range test that forgets the upper bound
InRangeNoMax(v, min, max) == ~(v < min)

\* the loop condition of getValidatedChoice, negated
InRange(v, min, max) == ~(v < min \/ v > max)

\* the loop condition of getValidatedDouble, negated
InRangeDouble(v, min, max) == ~(DblLess(v, min) \/ DblLess(max, v))

\* The range check after the attempt g, which found the value in range or not.
\* ret: the function returns the value; otherwise err is the message printed
\* and the prompt is shown again.
RangeChecked(g, inRange) ==
  [ret  |-> ~g.fail /\ inRange,
   val  |-> g.val,
   num  |-> g.num,
   err  |-> IF g.fail THEN "invalid" ELSE IF inRange THEN "none" ELSE "range",
   rest |-> g.rest,
   line |-> IF ~g.fail /\ ~inRange THEN [g.line EXCEPT !.rej = TRUE] ELSE g.line,
   g    |-> g]

\* One pass of the do-while of getValidatedChoice.
getValidatedChoice(min, max, s, ln) ==
  With(getValidated("int", s, ln),
       LAMBDA g : RangeChecked(g, InRange(g.val, min, max)))

\* One pass of the do-while of getValidatedDouble; min and max are doubles.
getValidatedDouble(min, max, s, ln) ==
  With(getValidated("double", s, ln),
       LAMBDA g : RangeChecked(g, InRangeDouble(g.num, min, max)))

\* the words getValidatedYesNo accepts, after tolower
YesWords == {<<"y">>, <<"y", "e", "s">>}
NoWords == {<<"n">>, <<"n", "o">>}

\* The comparison of the lower-cased word after the attempt g.
YesNoChecked(g) ==
  LET lw == LowerCase(g.tok)
      ok == ~g.fail /\ lw \in (YesWords \cup NoWords)
  IN  [ret  |-> ok,
       yes  |-> ~g.fail /\ lw \in YesWords,
       err  |-> IF g.fail THEN "invalid" ELSE IF ok THEN "none" ELSE "yesno",
       rest |-> g.rest,
       line |-> IF ~g.fail /\ ~ok THEN [g.line EXCEPT !.rej = TRUE] ELSE g.line,
       g    |-> g]

\* One pass of the do-while of getValidatedYesNo.
getValidatedYesNo(s, ln) ==
  With(getValidated("string", s, ln), LAMBDA g : YesNoChecked(g))

---------------------------------------------------------------------------
(* The user *)

\* the lines the user may type (each is followed by Enter)
Lines ==
  {<<>>,
   <<" ">>,
   <<"1">>,
   <<"2">>,
   <<"3">>,
   <<"4">>,
   <<"5">>,
   <<"9", " ", "2">>,
   <<"a", " ", "2">>,
   <<"1", "2", "a", "b", "c">>,
   <<"2", ".", "5">>,
   <<"1", "2">>,
   <<"9", "9", "9", "9", "9", "9", "9", "9", "9", "9">>,
   <<"-", "5">>,
   <<"8", "0">>,
   <<"1", "0", "0">>,
   <<"1", "0", "0", ".", "2", "1">>,
   <<"1", "0", "0", "0">>,
   <<"1", "0", "0", "0", "0", "0">>,
   <<"y">>,
   <<"y", "e", "s">>,
   <<"Y", "E", "S">>,
   <<"n">>,
   <<"n", "o">>,
   <<"y", "e", "s", " ", "p", "l", "e", "a", "s", "e">>,
   <<"y", "e", "p">>}

\* the lines of a user who goes to the Student Grade Evaluator and types
\* grades
GradeLines ==
  {<<"1">>,
   <<"2">>,
   <<"4">>,
   <<"5">>,
   <<"0">>,
   <<"6", "0">>,
   <<"8", "0">>,
   <<"1", "0", "0">>,
   <<"5", "6", ".", "0", "4">>,
   <<"6", "3", ".", "9", "6">>,
   <<"1", "0", "0", "0">>,
   <<"a", " ", "2">>}

\* the lines of a user who types ahead: the choices and values of a whole
\* activity on one line
AheadLines ==
  {<<>>,
   <<"3">>,
   <<"5">>,
   <<"4", TAB, "2">>,
   <<"4", " ", "1", " ", "1", "0", "0", ".", "1", "0", " ", "y">>,
   <<"2", " ", "8", "0", " ", "8", "0", " ", "8", "0", " ", "7", "8">>,
   <<"2", " ", "8", "0", " ", "8", "0", " ", "8", "0", " ", "8", "2">>,
   <<"2", " ", "1", "e", "2", " ", ".", "8", "E", "+", "2", " ",
     "7", "9", ".", "9", "9", "9", " ", "8", "0", ".", "5">>,
   <<"2", " ", "1", "0", "1">>}

---------------------------------------------------------------------------
(* Output and bookkeeping of one step *)

NoOut == [err |-> "none", called |-> <<>>, msg |-> <<>>, menu |-> "none",
          conv |-> <<>>, drawn |-> <<>>, rates |-> <<>>, grade |-> <<>>,
          got |-> <<>>, range |-> <<>>]

NoRead == [kind |-> "none", at |-> "none", ok |-> FALSE, err |-> "none",
           val |-> 0, num |-> DblZero(FALSE), yes |-> FALSE, min |-> 0, max |-> 0,
           tok |-> <<>>, whole |-> <<>>, text |-> <<>>, trailing |-> FALSE,
           rem |-> FALSE, rej |-> FALSE, pause |-> FALSE]

\* the record of a validated read attempt r made at the prompt `where`
ReadOf(kind, where, r, min, max) ==
  [kind |-> kind, at |-> where, ok |-> r.ret, err |-> r.err,
   val |-> IF kind = "choice" THEN r.val ELSE 0,
   num |-> IF kind = "double" THEN r.num ELSE DblZero(FALSE),
   yes |-> IF kind = "yesno" THEN r.yes ELSE FALSE,
   min |-> min, max |-> max,
   tok |-> r.g.tok, whole |-> r.g.whole, text |-> r.g.text,
   trailing |-> r.g.trailing, rem |-> r.g.rem,
   rej |-> r.g.at.rej, pause |-> r.g.at.pause]

progVars == <<mainChoice, triChoice, height, curChoice, gi, sum, grades, amountInPHP>>

\* a formatted read returns once a token has arrived or the input has ended
CanRead == HasToken(inp) \/ eof

\* the attempt r was rejected: the error is printed and the same prompt shown
Retry(r) ==
  /\ pc' = pc
  /\ stack' = stack
  /\ out' = [NoOut EXCEPT !.err = r.err]
  /\ UNCHANGED <<fmt, progVars, exitCode>>

\* the stream after the attempt r
Consumed(r) ==
  /\ inp' = r.rest
  /\ line' = r.line
  /\ UNCHANGED <<eof, typed>>

---------------------------------------------------------------------------
(* std::cout number formatting *)

\* n / 2^sh rounded to the nearest natural number, ties to even
BigRoundShift(n, sh) ==
  IF sh = 0 THEN n
  ELSE With(BigShr(n, sh),
            LAMBDA q : IF /\ BigBit(n, sh - 1) = 1
                          /\ (BigLowBits(n, sh - 1) \/ BigBit(q, 0) = 1)
                       THEN BigAdd(q, <<1>>) ELSE q)

\* n / den rounded to the nearest natural number, ties to even
BigRoundDiv(n, den) ==
  With(BigDivMod(n, den),
       LAMBDA dm :
         With(BigCmp(BigAdd(dm.r, dm.r), den),
              LAMBDA c : IF c > 0 \/ (c = 0 /\ BigBit(dm.q, 0) = 1)
                         THEN BigAdd(dm.q, <<1>>) ELSE dm.q))

\* |x| * 10^k rounded to the nearest natural number, ties to even: what
\* printf does with the exact value of the double
DblScaled(x, k) ==
  IF x.m = <<>> THEN <<>>
  ELSE With(BigPow10(IF k < 0 THEN -k ELSE k),
            LAMBDA p :
              IF k >= 0
              THEN With(BigMul(x.m, p),
                        LAMBDA n : IF x.e >= 0 THEN BigShl(n, x.e)
                                   ELSE BigRoundShift(n, -x.e))
              ELSE With2(BigShl(x.m, IF x.e > 0 THEN x.e ELSE 0),
                         BigShl(p, IF x.e < 0 THEN -x.e ELSE 0),
                         LAMBDA n, den : BigRoundDiv(n, den)))

\* an estimate of the decimal exponent of x # 0 from its binary exponent:
\* the k with 10^k <= |x| < 10^(k+1) is the estimate or one above it (no
\* power of two in the range of a double is that close to a power of ten)
DblExp10(x) == ((BitLen(x.m) + x.e - 1) * 30103) \div 100000

\* the four decimal digits of 0 <= n < 10000
Four(n) == <<Digits[(n \div 1000) + 1], Digits[((n \div 100) % 10) + 1],
             Digits[((n \div 10) % 10) + 1], Digits[(n % 10) + 1]>>

\* the decimal digits of the natural number v, in groups of four
RECURSIVE DecGroups(_)
DecGroups(v) ==
  IF Len(v) <= 1 /\ Limb(v, 1) < 10000 THEN Four(Limb(v, 1))
  ELSE With(BigDivMod(v, <<10000>>),
            LAMBDA dm : DecGroups(dm.q) \o Four(BigInt(dm.r)))

\* the decimal digits of v: at least n of them, no leading zero before that
DecText(v, n) ==
  With(DecGroups(v),
       LAMBDA ds :
         With(CHOOSE z \in 0..Len(ds) :
                /\ \A i \in 1..z : ds[i] = "0"
                /\ z = Len(ds) \/ ds[z + 1] # "0",
              LAMBDA z :
                [i \in 1..(n - (Len(ds) - z)) |-> "0"]
                \o SubSeq(ds, z + 1, Len(ds))))

\* ds without its trailing zeros
StripZeroTail(ds) ==
  SubSeq(ds, 1, CHOOSE n \in 0..Len(ds) :
                  /\ \A i \in (n + 1)..Len(ds) : ds[i] = "0"
                  /\ n = 0 \/ ds[n] # "0")

SignText(neg) == IF neg THEN <<"-">> ELSE <<>>

\* cout << fixed << setprecision(prec) << x (printf %.*f): the sign, the
\* integer digits and, for prec > 0, the point and prec fraction digits
FixedDigits(neg, ds, prec) ==
  SignText(neg) \o SubSeq(ds, 1, Len(ds) - prec)
  \o (IF prec = 0 THEN <<>> ELSE <<".">> \o SubSeq(ds, Len(ds) - prec + 1, Len(ds)))

\* a conversion that cuts the digits after prec instead of rounding
FixedTruncated(x, prec) ==
  With(x, LAMBDA a :
    With(BigShr(BigShl(BigMul(a.m, BigPow10(prec)), IF a.e > 0 THEN a.e ELSE 0),
                IF a.e < 0 THEN -a.e ELSE 0),
         LAMBDA v : FixedDigits(a.neg, DecText(v, prec + 1), prec)))

\* cout << fixed << setprecision(prec) << x: the exact value of the double
\* x rounded to prec fraction digits, a tie to the even digit
FixedOf(x, prec) ==
  With(x, LAMBDA a :
    With(DblScaled(a, prec),
         LAMBDA v : FixedDigits(a.neg, DecText(v, prec + 1), prec)))

\* the exponent of the scientific notation: a sign and at least two digits
ExponentText(k) ==
  <<"e", IF k < 0 THEN "-" ELSE "+">>
  \o DecText(Big(IF k < 0 THEN -k ELSE k), 2)

\* cout << x in the default floatfield (printf %.*g) for the p significant
\* digits ds of x and its decimal exponent k: scientific notation when
\* k < -4 or k >= p, and no trailing zeros in the fraction
GeneralDigits(neg, ds, k, p) ==
  SignText(neg)
  \o (IF k < -4 \/ k >= p
      THEN <<ds[1]>>
           \o (IF StripZeroTail(SubSeq(ds, 2, p)) = <<>> THEN <<>>
               ELSE <<".">> \o StripZeroTail(SubSeq(ds, 2, p)))
           \o ExponentText(k)
      ELSE IF k >= 0
      THEN SubSeq(ds, 1, k + 1)
           \o (IF StripZeroTail(SubSeq(ds, k + 2, p)) = <<>> THEN <<>>
               ELSE <<".">> \o StripZeroTail(SubSeq(ds, k + 2, p)))
      ELSE <<"0", ".">> \o [i \in 1..(-k - 1) |-> "0"] \o StripZeroTail(ds))

\* the p digits v of x at the decimal exponent k; when the rounding carries
\* into a digit more (v = 10^p) the exponent is one higher
GeneralRounded(neg, v, k, p) ==
  IF BigCmp(v, BigPow10(p)) = 0
  THEN GeneralDigits(neg, DecText(BigPow10(p - 1), p), k + 1, p)
  ELSE GeneralDigits(neg, DecText(v, p), k, p)

\* cout << x in the default floatfield with precision prec (0 counts as 1):
\* x rounded to p significant digits at its decimal exponent
GeneralOf(x, prec) ==
  With(x, LAMBDA a :
    IF a.m = <<>> THEN SignText(a.neg) \o <<"0">>
    ELSE With2(DblExp10(a), IF prec = 0 THEN 1 ELSE prec,
               LAMBDA k, p :
                 With(DblScaled(a, p - 1 - k),
                      LAMBDA v :
                        IF BigCmp(v, BigPow10(p)) > 0
                        THEN With(DblScaled(a, p - 2 - k),
                                  LAMBDA w : GeneralRounded(a.neg, w, k + 1, p))
                        ELSE GeneralRounded(a.neg, v, k, p))))

\* cout << x under the format state f
Show(x, f) == IF f.fixed THEN FixedOf(x, f.prec) ELSE GeneralOf(x, f.prec)

\* the manipulators std::fixed, std::setprecision, std::left, std::right
fixed(f) == [f EXCEPT !.fixed = TRUE]
setprecision(f, n) == [f EXCEPT !.prec = n]
left(f) == [f EXCEPT !.left = TRUE]
right(f) == [f EXCEPT !.left = FALSE]
\* the format state of std::cout when the program starts
DefaultFormat == [fixed |-> FALSE, prec |-> 6, left |-> FALSE]

\* cout << setw(w) << text under the format state f: filled with spaces to
\* the width w, after the text when left is set and before it otherwise
setw(text, w, f) ==
  IF f.left THEN text \o [i \in 1..(w - Len(text)) |-> SP]
  ELSE [i \in 1..(w - Len(text)) |-> SP] \o text

\* the two bounds in "[ERROR] Value must be between min and max", printed as
\* doubles under the format state f
RangeMessage(min, max, f) == <<Show(min, f), Show(max, f)>>

\* the attempt r of getValidatedDouble was rejected: as Retry, and a range
\* error prints the bounds
RetryDouble(r, min, max) ==
  /\ pc' = pc
  /\ stack' = stack
  /\ out' = [NoOut EXCEPT !.err = r.err,
                          !.range = IF r.err = "range"
                                    THEN RangeMessage(min, max, fmt) ELSE <<>>]
  /\ UNCHANGED <<fmt, progVars, exitCode>>

---------------------------------------------------------------------------
(* TriangleLoopActivity *)

\* the number of '*' of each output line, in order
displayRightTriangle(h) ==
  [r \in 1..h |-> Cardinality({j \in 0..(r - 1) : j <= r - 1})]

\* an inverted triangle whose inner loop stops one star early
displayInvertedTriangleShort(h) ==
  [r \in 1..h |-> Cardinality({j \in 1..h : j > r})]

displayInvertedTriangle(h) ==
  [r \in 1..h |-> Cardinality({j \in 1..h : j > r - 1})]

\* a switch that has no case 3
TriangleSwitchNoBoth(choice, h) ==
  CASE choice = 1 ->
         [dflt |-> FALSE,
          drawn |-> <<[shape |-> "Right Triangle", h |-> h,
                       rows |-> displayRightTriangle(h)]>>]
    [] choice = 2 ->
         [dflt |-> FALSE,
          drawn |-> <<[shape |-> "Inverted Triangle", h |-> h,
                       rows |-> displayInvertedTriangle(h)]>>]
    [] OTHER -> [dflt |-> TRUE, drawn |-> <<>>]

\* a switch whose case 3 draws the inverted triangle first
TriangleSwitchInvertedFirst(choice, h) ==
  CASE choice = 1 ->
         [dflt |-> FALSE,
          drawn |-> <<[shape |-> "Right Triangle", h |-> h,
                       rows |-> displayRightTriangle(h)]>>]
    [] choice = 2 ->
         [dflt |-> FALSE,
          drawn |-> <<[shape |-> "Inverted Triangle", h |-> h,
                       rows |-> displayInvertedTriangle(h)]>>]
    [] choice = 3 ->
         [dflt |-> FALSE,
          drawn |-> <<[shape |-> "Inverted Triangle", h |-> h,
                       rows |-> displayInvertedTriangle(h)],
                      [shape |-> "Right Triangle", h |-> h,
                       rows |-> displayRightTriangle(h)]>>]
    [] OTHER -> [dflt |-> TRUE, drawn |-> <<>>]

\* the switch of TriangleLoopActivity::run: the shapes drawn for a choice,
\* or the default branch
TriangleSwitch(choice, h) ==
  CASE choice = 1 ->
         [dflt |-> FALSE,
          drawn |-> <<[shape |-> "Right Triangle", h |-> h,
                       rows |-> displayRightTriangle(h)]>>]
    [] choice = 2 ->
         [dflt |-> FALSE,
          drawn |-> <<[shape |-> "Inverted Triangle", h |-> h,
                       rows |-> displayInvertedTriangle(h)]>>]
    [] choice = 3 ->
         [dflt |-> FALSE,
          drawn |-> <<[shape |-> "Right Triangle", h |-> h,
                       rows |-> displayRightTriangle(h)],
                      [shape |-> "Inverted Triangle", h |-> h,
                       rows |-> displayInvertedTriangle(h)]>>]
    [] OTHER -> [dflt |-> TRUE, drawn |-> <<>>]

---------------------------------------------------------------------------
(* CurrencyExchangeCalculator *)

\* the numbers displayRates prints when the rates are printed under the
\* format state f1 and the fee percentage under f2
RatesText(f1, f2) ==
  [usd |-> Show(DblDiv(One, USD_RATE), f1),
   eur |-> Show(DblDiv(One, EUR_RATE), f1),
   jpy |-> Show(DblDiv(One, JPY_RATE), f1),
   aud |-> Show(DblDiv(One, AUD_RATE), f1),
   fee |-> Show(DblMul(TRANSACTION_FEE_RATE, Hundred), f2)]

\* a displayRates that sets the precision only
displayRatesNoFixed(f) ==
  [text |-> RatesText(setprecision(f, 4), setprecision(f, 0)),
   was  |-> f,
   fmt  |-> setprecision(f, 0)]

\* displayRates called with cout in the format state f: fixed and
\* setprecision(4) for the four reciprocal rates, setprecision(0) for the fee
\* percentage; fmt is the state it leaves cout in
displayRates(f) ==
  [text |-> RatesText(setprecision(fixed(f), 4), setprecision(fixed(f), 0)),
   was  |-> f,
   fmt  |-> setprecision(fixed(f), 0)]

\* the format state displayConversion leaves cout in: fixed and
\* setprecision(2) before the numbers, left in the summary, right for the
\* last header column and left again in the table rows
displayConversionFormat(f) == left(right(left(setprecision(fixed(f), 2))))

\* a rate in its column of the table: left, setw(rate_w), fixed, precision 2
RateColumn(rate) == setw(FixedOf(rate, 2), rate_w, left(DefaultFormat))

\* displayConversion: the seven numbers and the four rates at fixed,
\* precision 2.  The arguments are kept next to what is shown.
displayConversion(amount, fee, netPHP, usd, eur, jpy, aud) ==
  [amountInPHP |-> amount, fee |-> fee, netPHP |-> netPHP,
   usd |-> usd, eur |-> eur, jpy |-> jpy, aud |-> aud,
   shown |-> [amount |-> FixedOf(amount, 2),
              fee    |-> FixedOf(fee, 2),
              net    |-> FixedOf(netPHP, 2),
              usd    |-> FixedOf(usd, 2),
              eur    |-> FixedOf(eur, 2),
              jpy    |-> FixedOf(jpy, 2),
              aud    |-> FixedOf(aud, 2)],
   rates |-> [usd |-> RateColumn(USD_RATE),
              eur |-> RateColumn(EUR_RATE),
              jpy |-> RateColumn(JPY_RATE),
              aud |-> RateColumn(AUD_RATE)]]

\* fee = amountInPHP * TRANSACTION_FEE_RATE
FeeOf(amount) == DblMul(amount, TRANSACTION_FEE_RATE)
\* a net amount that forgets the fee
NetOfGross(amount, fee) == amount

\* netPHP = amountInPHP - fee
NetOf(amount, fee) == DblSub(amount, fee)
\* netPHP / RATE
Converted(netPHP, rate) == DblDiv(netPHP, rate)

\* the computation of convertCurrency after a confirmation
Conversion(amount) ==
  With(FeeOf(amount),
       LAMBDA fee :
         With(NetOf(amount, fee),
              LAMBDA netPHP :
                With2(<<Converted(netPHP, USD_RATE), Converted(netPHP, EUR_RATE)>>,
                      <<Converted(netPHP, JPY_RATE), Converted(netPHP, AUD_RATE)>>,
                      LAMBDA ue, ja :
                        displayConversion(amount, fee, netPHP,
                                          ue[1], ue[2], ja[1], ja[2]))))

\* a conversion that goes on whatever the confirmation was
convertCurrencyAlways(amount, proceed) ==
  [msg |-> <<>>, conv |-> <<Conversion(amount)>>]

\* the part of convertCurrency after the confirmation
convertCurrency(amount, proceed) ==
  IF ~proceed
  THEN [msg |-> <<"Transaction cancelled.">>, conv |-> <<>>]
  ELSE [msg |-> <<>>, conv |-> <<Conversion(amount)>>]

---------------------------------------------------------------------------
(* The program *)

Init ==
  /\ pc = "main_choice"
  /\ stack = <<"Program::run">>
  /\ inp = <<>>
  /\ eof = FALSE
  /\ typed = 0
  /\ line = NewLine
  /\ rd = NoRead
  /\ out = [NoOut EXCEPT !.menu = "main"]
  /\ fmt = DefaultFormat
  /\ mainChoice = 0
  /\ triChoice = 0
  /\ height = 0
  /\ curChoice = 0
  /\ gi = 0
  /\ sum = NoSum
  /\ grades = NoGrades
  /\ amountInPHP = NoAmount
  /\ exitCode = -1

\* a switch whose case 1 leaves the program as case 5 does
MainSwitchExitOn1(choice) ==
  CASE choice \in {1, 5} ->
                     [pc |-> "done", call |-> <<>>,
                      menu |-> "none", msg |-> <<"Exiting program... Goodbye!">>,
                      dflt |-> FALSE]
    [] choice = 2 -> [pc |-> "grade_read", call |-> <<"StudentGradeEvaluator::run">>,
                      menu |-> "none", msg |-> <<>>, dflt |-> FALSE]
    [] choice = 3 -> [pc |-> "tri_choice", call |-> <<"TriangleLoopActivity::run">>,
                      menu |-> "tri", msg |-> <<>>, dflt |-> FALSE]
    [] choice = 4 -> [pc |-> "cur_choice", call |-> <<"CurrencyExchangeCalculator::run">>,
                      menu |-> "cur", msg |-> <<>>, dflt |-> FALSE]
    [] OTHER      -> [pc |-> "main_choice", call |-> <<>>,
                      menu |-> "main", msg |-> <<>>, dflt |-> TRUE]

\* the switch of Program::run: where control goes for a choice
MainSwitch(choice) ==
  CASE choice = 1 -> [pc |-> "pause_ignore", call |-> <<"VirtualStudentInfo::run">>,
                      menu |-> "none", msg |-> <<>>, dflt |-> FALSE]
    [] choice = 2 -> [pc |-> "grade_read", call |-> <<"StudentGradeEvaluator::run">>,
                      menu |-> "none", msg |-> <<>>, dflt |-> FALSE]
    [] choice = 3 -> [pc |-> "tri_choice", call |-> <<"TriangleLoopActivity::run">>,
                      menu |-> "tri", msg |-> <<>>, dflt |-> FALSE]
    [] choice = 4 -> [pc |-> "cur_choice", call |-> <<"CurrencyExchangeCalculator::run">>,
                      menu |-> "cur", msg |-> <<>>, dflt |-> FALSE]
    [] choice = 5 -> [pc |-> "done", call |-> <<>>,
                      menu |-> "none", msg |-> <<"Exiting program... Goodbye!">>,
                      dflt |-> FALSE]
    [] OTHER      -> [pc |-> "main_choice", call |-> <<>>,
                      menu |-> "main", msg |-> <<>>, dflt |-> TRUE]

\* Program::run: read the main menu choice and dispatch it
MainChoice ==
  /\ pc = "main_choice"
  /\ CanRead
  /\ \E r \in {getValidatedChoice(1, Len(menuItems), inp, line)} :
     LET d == MainSwitch(r.val)
     IN  /\ Consumed(r)
         /\ rd' = ReadOf("choice", pc, r, 1, Len(menuItems))
         /\ IF ~r.ret THEN Retry(r)
            ELSE /\ mainChoice' = r.val
                 /\ pc' = d.pc
                 /\ stack' = IF d.pc = "done" THEN <<>> ELSE stack \o d.call
                 /\ out' = [NoOut EXCEPT !.called = d.call, !.msg = d.msg,
                                         !.menu = d.menu,
                                         !.err = IF d.dflt THEN "default" ELSE "none"]
                 /\ gi' = IF r.val = 2 THEN 0 ELSE gi
                 /\ sum' = IF r.val = 2 THEN NoSum ELSE sum
                 /\ grades' = IF r.val = 2 THEN NoGrades ELSE grades
                 /\ exitCode' = IF d.pc = "done" THEN 0 ELSE exitCode
                 /\ UNCHANGED <<fmt, triChoice, height, curChoice, amountInPHP>>

\* the names of grades[], in the order the grades are asked
GradeNames == <<"Prelim", "Midterm", "PreFinal", "Final">>

\* average >= PASSING_GRADE: TRUE is the passing remark
Remark(average) == ~DblLess(average, PassingGrade)

\* what StudentGradeEvaluator::run prints after the last grade: average =
\* sum / NUMBER_OF_GRADES under the format state f and the remark; values
\* are the grades read, in the order of names, and total is what sum holds
GradeReport(values, total, f) ==
  With(DblDiv(total, NumberOfGrades),
       LAMBDA average :
         [names |-> GradeNames, values |-> values, sum |-> total,
          average |-> average, shown |-> Show(average, f),
          pass |-> Remark(average)])

\* StudentGradeEvaluator::run: read grade i; after the last one show the
\* average and the remark and pause
GradeRead ==
  /\ pc = "grade_read"
  /\ CanRead
  /\ \E r \in {getValidatedDouble(MinGrade, MaxGrade, inp, line)} :
     \E total \in {IF r.ret THEN DblAdd(sum, r.num) ELSE sum} :
     LET last == gi + 1 = NUMBER_OF_GRADES
     IN  /\ Consumed(r)
         /\ rd' = ReadOf("double", pc, r, MIN_GRADE, MAX_GRADE)
         /\ IF ~r.ret THEN RetryDouble(r, MinGrade, MaxGrade)
            ELSE /\ sum' = total
                 /\ grades' = [grades EXCEPT ![gi + 1] = r.num]
                 /\ gi' = gi + 1
                 /\ pc' = IF last THEN "pause_ignore" ELSE "grade_read"
                 /\ out' = IF last
                           THEN [NoOut EXCEPT !.grade =
                                  <<GradeReport([grades EXCEPT ![gi + 1] = r.num],
                                                total, fmt)>>]
                           ELSE NoOut
                 /\ UNCHANGED <<stack, fmt, mainChoice, triChoice, height,
                                curChoice, amountInPHP, exitCode>>

\* TriangleLoopActivity::run: read the menu choice; 4 leaves the activity
TriChoice ==
  /\ pc = "tri_choice"
  /\ CanRead
  /\ \E r \in {getValidatedChoice(1, Len(TriangleOptions), inp, line)} :
         /\ Consumed(r)
         /\ rd' = ReadOf("choice", pc, r, 1, Len(TriangleOptions))
         /\ IF ~r.ret THEN Retry(r)
            ELSE /\ IF r.val = 4
                    THEN /\ pc' = "main_choice"
                         /\ stack' = SubSeq(stack, 1, Len(stack) - 1)
                         /\ out' = [NoOut EXCEPT !.menu = "main",
                                      !.msg = <<"Exiting Triangle Activity...">>]
                         /\ triChoice' = 0
                         /\ height' = 0
                    ELSE /\ pc' = "tri_height"
                         /\ stack' = stack
                         /\ out' = NoOut
                         /\ triChoice' = r.val
                         /\ height' = height
                 /\ UNCHANGED <<fmt, mainChoice, curChoice, gi, sum, grades,
                                amountInPHP, exitCode>>

\* TriangleLoopActivity::run: read the height and draw what was chosen
TriHeight ==
  /\ pc = "tri_height"
  /\ CanRead
  /\ \E r \in {getValidatedChoice(MIN_HEIGHT, MAX_HEIGHT, inp, line)} :
     LET d == TriangleSwitch(triChoice, r.val)
     IN  /\ Consumed(r)
         /\ rd' = ReadOf("choice", pc, r, MIN_HEIGHT, MAX_HEIGHT)
         /\ IF ~r.ret THEN Retry(r)
            ELSE /\ height' = r.val
                 /\ pc' = IF d.dflt THEN "tri_choice" ELSE "pause_ignore"
                 /\ out' = [NoOut EXCEPT !.drawn = d.drawn,
                              !.menu = IF d.dflt THEN "tri" ELSE "none",
                              !.err = IF d.dflt THEN "default" ELSE "none"]
                 /\ UNCHANGED <<stack, fmt, mainChoice, triChoice, curChoice,
                                gi, sum, grades, amountInPHP, exitCode>>

\* a switch whose case 2 runs the conversion
CurrencySwitchSwapped(choice) ==
  CASE choice = 3 -> [pc |-> "main_choice", call |-> <<>>, pop |-> 1,
                      menu |-> "main", dflt |-> FALSE,
                      msg |-> <<"Exiting Currency Exchange Calculator...">>]
    [] choice \in {1, 2} ->
                     [pc |-> "cur_amount", call |-> <<"convertCurrency">>, pop |-> 0,
                      menu |-> "none", dflt |-> FALSE, msg |-> <<>>]
    [] OTHER      -> [pc |-> "cur_choice", call |-> <<>>, pop |-> 0,
                      menu |-> "cur", dflt |-> TRUE, msg |-> <<>>]

\* the switch of CurrencyExchangeCalculator::run, with the exit test before it
CurrencySwitch(choice) ==
  CASE choice = 3 -> [pc |-> "main_choice", call |-> <<>>, pop |-> 1,
                      menu |-> "main", dflt |-> FALSE,
                      msg |-> <<"Exiting Currency Exchange Calculator...">>]
    [] choice = 1 -> [pc |-> "cur_amount", call |-> <<"convertCurrency">>, pop |-> 0,
                      menu |-> "none", dflt |-> FALSE, msg |-> <<>>]
    [] choice = 2 -> [pc |-> "pause_ignore", call |-> <<"displayRates">>, pop |-> 0,
                      menu |-> "none", dflt |-> FALSE, msg |-> <<>>]
    [] OTHER      -> [pc |-> "cur_choice", call |-> <<>>, pop |-> 0,
                      menu |-> "cur", dflt |-> TRUE, msg |-> <<>>]

\* CurrencyExchangeCalculator::run: read the menu choice and dispatch it
CurChoice ==
  /\ pc = "cur_choice"
  /\ CanRead
  /\ \E r \in {getValidatedChoice(1, Len(CurrencyOptions), inp, line)} :
     \E d \in {CurrencySwitch(r.val)} :
     \E shown \in {IF r.ret /\ d.call = <<"displayRates">>
                    THEN <<displayRates(fmt)>> ELSE <<>>} :
         /\ Consumed(r)
         /\ rd' = ReadOf("choice", pc, r, 1, Len(CurrencyOptions))
         /\ IF ~r.ret THEN Retry(r)
            ELSE /\ curChoice' = IF d.pop = 1 THEN 0 ELSE r.val
                 /\ pc' = d.pc
                 /\ stack' = SubSeq(stack, 1, Len(stack) - d.pop)
                 /\ out' = [NoOut EXCEPT !.called = d.call, !.msg = d.msg,
                              !.menu = d.menu,
                              !.rates = shown,
                              !.err = IF d.dflt THEN "default" ELSE "none"]
                 /\ fmt' = IF shown # <<>> THEN shown[1].fmt ELSE fmt
                 /\ UNCHANGED <<mainChoice, triChoice, height, gi, sum, grades,
                                amountInPHP, exitCode>>

\* convertCurrency: read the amount
CurAmount ==
  /\ pc = "cur_amount"
  /\ CanRead
  /\ \E r \in {getValidatedDouble(MinAmount, MaxAmount, inp, line)} :
         /\ Consumed(r)
         /\ rd' = ReadOf("double", pc, r, MIN_AMOUNT, MAX_AMOUNT)
         /\ IF ~r.ret THEN RetryDouble(r, MinAmount, MaxAmount)
            ELSE /\ amountInPHP' = r.num
                 /\ pc' = "cur_confirm"
                 /\ out' = NoOut
                 /\ UNCHANGED <<stack, fmt, mainChoice, triChoice, height,
                                curChoice, gi, sum, grades, exitCode>>

\* convertCurrency: read the confirmation, then convert and display, or cancel
CurConfirm ==
  /\ pc = "cur_confirm"
  /\ CanRead
  /\ \E r \in {getValidatedYesNo(inp, line)} :
     \E c \in {convertCurrency(amountInPHP, r.yes)} :
         /\ Consumed(r)
         /\ rd' = ReadOf("yesno", pc, r, 0, 0)
         /\ IF ~r.ret THEN Retry(r)
            ELSE /\ pc' = "pause_ignore"
                 /\ out' = [NoOut EXCEPT !.msg = c.msg, !.conv = c.conv,
                              !.called = IF c.conv # <<>>
                                         THEN <<"displayConversion">> ELSE <<>>]
                 /\ fmt' = IF c.conv # <<>> THEN displayConversionFormat(fmt) ELSE fmt
                 /\ amountInPHP' = NoAmount
                 /\ UNCHANGED <<stack, mainChoice, triChoice, height, curChoice,
                                gi, sum, grades, exitCode>>

\* UI::pauseBuffer, first call: cin.ignore up to the next newline
PauseIgnore ==
  /\ pc = "pause_ignore"
  /\ HasNL(inp) \/ eof
  /\ inp' = Ignore(inp)
  /\ line' = [Advance(line, IgnoredPart(inp)) EXCEPT !.mid = FALSE]
  /\ pc' = "pause_get"
  /\ rd' = NoRead
  /\ out' = NoOut
  /\ UNCHANGED <<stack, eof, typed, fmt, progVars, exitCode>>

\* where pauseBuffer returns to: the activity returns to the main menu, a
\* sub-menu loop shows its menu again
PauseReturn(frame) ==
  CASE frame = "VirtualStudentInfo::run"         -> [pc |-> "main_choice", pop |-> 1, menu |-> "main"]
    [] frame = "StudentGradeEvaluator::run"      -> [pc |-> "main_choice", pop |-> 1, menu |-> "main"]
    [] frame = "TriangleLoopActivity::run"       -> [pc |-> "tri_choice", pop |-> 0, menu |-> "tri"]
    [] frame = "CurrencyExchangeCalculator::run" -> [pc |-> "cur_choice", pop |-> 0, menu |-> "cur"]

\* cin.get(): one character, or nothing at the end of the input
Get(s) == IF s = <<>> THEN <<>> ELSE <<s[1]>>

\* UI::pauseBuffer, second call: cin.get(), then return to the caller
PauseGet ==
  /\ pc = "pause_get"
  /\ inp # <<>> \/ eof
  /\ LET c == Get(inp)
         ret == PauseReturn(stack[Len(stack)])
     IN  /\ inp' = Drop(inp, Len(c))
         /\ line' = IF c = <<>> \/ c = <<NL>> THEN NewLine
                    ELSE [NewLine EXCEPT !.pre = c, !.pause = TRUE]
         /\ pc' = ret.pc
         /\ stack' = SubSeq(stack, 1, Len(stack) - ret.pop)
         /\ out' = [NoOut EXCEPT !.got = c, !.menu = ret.menu]
         /\ gi' = IF ret.pop = 1 THEN 0 ELSE gi
         /\ sum' = IF ret.pop = 1 THEN NoSum ELSE sum
         /\ grades' = IF ret.pop = 1 THEN NoGrades ELSE grades
  /\ rd' = NoRead
  /\ UNCHANGED <<eof, typed, fmt, mainChoice, triChoice, height, curChoice,
                 amountInPHP, exitCode>>

\* the program waits for input
Blocked ==
  \/ pc \in {"main_choice", "grade_read", "tri_choice", "tri_height",
             "cur_choice", "cur_amount", "cur_confirm"} /\ ~HasToken(inp)
  \/ pc = "pause_ignore" /\ ~HasNL(inp)
  \/ pc = "pause_get" /\ inp = <<>>

\* The user types a line and presses Enter.  The blocked read has by then
\* skipped the whitespace that was left in the stream; rd and out describe
\* the program's last step only until the next input arrives.
TypeLine ==
  /\ Blocked
  /\ ~eof
  /\ typed < MaxLines
  /\ \E l \in Lines : inp' = l \o <<NL>>
  /\ line' = Advance(line, inp)
  /\ typed' = typed + 1
  /\ rd' = NoRead
  /\ out' = NoOut
  /\ UNCHANGED <<pc, stack, eof, fmt, progVars, exitCode>>

\* The user types one of the lines of GradeLines.
TypeGrade ==
  /\ Blocked
  /\ ~eof
  /\ typed < MaxLines
  /\ \E l \in GradeLines : inp' = l \o <<NL>>
  /\ line' = Advance(line, inp)
  /\ typed' = typed + 1
  /\ rd' = NoRead
  /\ out' = NoOut
  /\ UNCHANGED <<pc, stack, eof, fmt, progVars, exitCode>>

\* The user types one of the lines of AheadLines.
TypeAhead ==
  /\ Blocked
  /\ ~eof
  /\ typed < MaxLines
  /\ \E l \in AheadLines : inp' = l \o <<NL>>
  /\ line' = Advance(line, inp)
  /\ typed' = typed + 1
  /\ rd' = NoRead
  /\ out' = NoOut
  /\ UNCHANGED <<pc, stack, eof, fmt, progVars, exitCode>>

\* the input ends
CloseInput ==
  /\ Blocked
  /\ ~eof
  /\ eof' = TRUE
  /\ inp' = <<>>
  /\ line' = Advance(line, inp)
  /\ rd' = NoRead
  /\ out' = NoOut
  /\ UNCHANGED <<pc, stack, typed, fmt, progVars, exitCode>>

Next ==
  \/ MainChoice
  \/ GradeRead
  \/ TriChoice
  \/ TriHeight
  \/ CurChoice
  \/ CurAmount
  \/ CurConfirm
  \/ PauseIgnore
  \/ PauseGet
  \/ TypeLine
  \/ CloseInput

Spec == Init /\ [][Next]_vars

\* the program with a user who types grades
NextGrades ==
  \/ MainChoice
  \/ GradeRead
  \/ TriChoice
  \/ TriHeight
  \/ CurChoice
  \/ CurAmount
  \/ CurConfirm
  \/ PauseIgnore
  \/ PauseGet
  \/ TypeGrade
  \/ CloseInput

GradeSpec == Init /\ [][NextGrades]_vars

\* the program with a user who types ahead: the choices and values of a
\* whole activity on one line
NextAhead ==
  \/ MainChoice
  \/ GradeRead
  \/ TriChoice
  \/ TriHeight
  \/ CurChoice
  \/ CurAmount
  \/ CurConfirm
  \/ PauseIgnore
  \/ PauseGet
  \/ TypeAhead
  \/ CloseInput

AheadSpec == Init /\ [][NextAhead]_vars

---------------------------------------------------------------------------
(* Properties *)

AllDigits(text) == text # <<>> /\ \A i \in 1..Len(text) : IsDigit(text[i])

\* the token does not start a number
NonNumeric(text) ==
  /\ text # <<>>
  /\ ~IsDigit(text[1])
  /\ ~(text[1] \in {"+", "-"} /\ Len(text) >= 2 /\ IsDigit(text[2]))

\* the token is a decimal integer above INT_MAX
TooLarge(text) ==
  /\ AllDigits(text)
  /\ LET ds == StripZeros(text)
     IN  Len(ds) > 10 \/ (Len(ds) = 10 /\ DigitVal(ds[1]) >= 3)

\* C1: getValidatedChoice returns only an integer v with min <= v <= max; a
\* non-numeric token, an integer too large for int and an out-of-range
\* integer are never returned, and each of them is followed by an error
\* message and the same prompt again.
C1_ChoiceInRange ==
  rd.kind = "choice" =>
    /\ rd.ok => rd.min <= rd.val /\ rd.val <= rd.max
    /\ (NonNumeric(rd.text) \/ TooLarge(rd.text)) => ~rd.ok /\ rd.err = "invalid"
    /\ (AllDigits(rd.text) /\ ~TooLarge(rd.text)
          /\ (rd.val < rd.min \/ rd.val > rd.max)) => ~rd.ok /\ rd.err = "range"
    /\ ~rd.ok => pc = rd.at /\ out.err = rd.err /\ out.err # "none"

\* an integer too large for int was rejected at a choice prompt
C1_Witness ==
  /\ rd.kind = "choice"
  /\ TooLarge(rd.text)
  /\ ~rd.ok
  /\ pc = rd.at

\* C2: the three menus dispatch only on a choice of their listed range
\* (1..5, 1..4, 1..3) and the default branch of the three switch statements
\* is never executed.
C2_NoDefaultBranch ==
  /\ out.err # "default"
  /\ (rd.at = "main_choice" /\ rd.ok) => rd.val \in 1..5 /\ mainChoice = rd.val
  /\ (rd.at = "tri_choice" /\ rd.ok) => rd.val \in 1..4
  /\ (rd.at = "tri_height" /\ rd.ok) => triChoice \in 1..3
  /\ (rd.at = "cur_choice" /\ rd.ok) => rd.val \in 1..3

\* the Triangle switch ran on choice 3
C2_Witness ==
  /\ rd.at = "tri_height"
  /\ rd.ok
  /\ triChoice = 3
  /\ Len(out.drawn) = 2

\* the handler listed at each index of the three menus
MainHandlers == <<"VirtualStudentInfo::run", "StudentGradeEvaluator::run",
                  "TriangleLoopActivity::run", "CurrencyExchangeCalculator::run">>
TriangleShapes == <<(<<"Right Triangle">>), (<<"Inverted Triangle">>),
                    (<<"Right Triangle", "Inverted Triangle">>)>>
CurrencyHandlers == <<"convertCurrency", "displayRates">>

Top == stack[Len(stack)]
InPause == pc \in {"pause_ignore", "pause_get"}

\* what a validated menu choice has just done
C3_Dispatch ==
  /\ (rd.at = "main_choice" /\ rd.ok) =>
       IF rd.val = 5
       THEN pc = "done" /\ out.called = <<>> /\ stack = <<>>
       ELSE /\ out.called = <<MainHandlers[rd.val]>>
            /\ stack = <<"Program::run", MainHandlers[rd.val]>>
  /\ (rd.at = "tri_choice" /\ rd.ok) =>
       /\ out.drawn = <<>>
       /\ IF rd.val = 4
          THEN pc = "main_choice" /\ stack = <<"Program::run">>
          ELSE pc = "tri_height"
  /\ (rd.at = "tri_height" /\ rd.ok) =>
       /\ [i \in 1..Len(out.drawn) |-> out.drawn[i].shape] = TriangleShapes[triChoice]
       /\ pc = "pause_ignore" /\ Top = "TriangleLoopActivity::run"
  /\ (rd.at = "cur_choice" /\ rd.ok) =>
       IF rd.val = 3
       THEN pc = "main_choice" /\ out.called = <<>> /\ stack = <<"Program::run">>
       ELSE /\ out.called = <<CurrencyHandlers[rd.val]>>
            /\ Top = "CurrencyExchangeCalculator::run"
            /\ (out.rates # <<>>) = (rd.val = 2)
            /\ pc = IF rd.val = 1 THEN "cur_amount" ELSE "pause_ignore"

\* a handler that ends gives control back to the menu that invoked it, which
\* is displayed again
C3_Return ==
  /\ (Len(stack) = 2 /\ Len(stack') = 1) =>
        pc' = "main_choice" /\ out'.menu = "main"
  /\ (Len(stack) = 2 /\ Len(stack') = 2 /\ InPause /\ pc' # pc /\ pc' # "pause_get") =>
        /\ stack' = stack
        /\ Top = "TriangleLoopActivity::run" =>
              pc' = "tri_choice" /\ out'.menu = "tri"
        /\ Top = "CurrencyExchangeCalculator::run" =>
              pc' = "cur_choice" /\ out'.menu = "cur"
        /\ Top \in {"TriangleLoopActivity::run", "CurrencyExchangeCalculator::run"}
  /\ (pc = "cur_confirm" /\ pc' # pc) => pc' = "pause_ignore" /\ stack' = stack

\* C3: in each of the three menu loops the last listed choice ends the loop
\* without invoking a handler; every other validated choice k invokes exactly
\* the handler listed at index k, and when it ends the same menu is
\* displayed again.
C3_MenuLoops == [](C3_Dispatch) /\ [][C3_Return]_vars

\* View Rates has run and the Currency menu is displayed again
C3_Witness ==
  /\ pc = "cur_choice"
  /\ curChoice = 2
  /\ out.menu = "cur"
  /\ out.got = <<NL>>

\* C4: a number followed by trailing garbage ('12abc', '2.5' for an integer)
\* is a parse failure of every numeric validated read: no value taken from a
\* prefix of the token is returned, and no remainder of the token becomes the
\* value of a later prompt.
C4_TrailingGarbageRejected ==
  rd.kind \in {"choice", "double"} =>
    /\ rd.trailing => ~rd.ok
    /\ rd.rem => ~rd.ok

\* C5: after a rejected input the line that held it is discarded: no later
\* validated read returns a value taken from that line.
C5_RejectedLineDiscarded ==
  rd.ok => ~rd.rej

\* C6: getValidatedYesNo returns true only for an input line that is, in any
\* letter case, 'y' or 'yes', false only for 'n' or 'no', and answers every
\* other line with the error message and the prompt again.
C6_YesNoExactLine ==
  rd.kind = "yesno" =>
    /\ (rd.ok /\ rd.yes) => LowerCase(rd.whole) \in YesWords
    /\ (rd.ok /\ ~rd.yes) => LowerCase(rd.whole) \in NoWords
    /\ LowerCase(rd.whole) \notin (YesWords \cup NoWords) =>
         ~rd.ok /\ pc = rd.at /\ out.err # "none"

\* C7: pauseBuffer consumes the whole line typed at the pause and nothing
\* more: no validated read sees a character of that line.
C7_PauseTakesWholeLine ==
  rd.kind # "none" => ~rd.pause

\* the conversion displayed by the last step, if any
Conv == out.conv[1]
Converting == out.conv # <<>>

\* the double of the decimal number n / 10^d
Decimal(n, d) == DblOfDecimal(FALSE, Big(n), -d)

\* the displayed amount (a number of hundredths) is the quotient net / rate
\* rounded to 2 decimals
RoundedQuotient(shown, net, rate) ==
  LET diff == shown * rate - net * 100
  IN  2 * diff <= rate /\ 2 * diff >= -rate

\* C8 as stated: amount 1000 confirmed shows fee 50.00, net 950.00, USD 16.31,
\* EUR 14.05, JPY 2488.73, AUD 24.80.
C8_Conversion1000_AsStated ==
  (Converting /\ Conv.amountInPHP = DblOfInt(1000)) =>
    /\ Conv.shown.fee = <<"5", "0", ".", "0", "0">>
    /\ Conv.shown.net = <<"9", "5", "0", ".", "0", "0">>
    /\ Conv.shown.usd = <<"1", "6", ".", "3", "1">>
    /\ Conv.shown.eur = <<"1", "4", ".", "0", "5">>
    /\ Conv.shown.jpy = <<"2", "4", "8", "8", ".", "7", "3">>
    /\ Conv.shown.aud = <<"2", "4", ".", "8", "0">>

\* C8 (amended): amount 1000 confirmed shows fee 50.00, net 950.00, USD 16.31,
\* EUR 14.05, JPY 2488.21, AUD 24.80, each converted amount being net / rate
\* rounded to 2 decimals with the rates 58.2554, 67.6375, 0.3818, 38.3071.
C8_Conversion1000 ==
  (Converting /\ Conv.amountInPHP = DblOfInt(1000)) =>
    /\ rd.yes
    /\ Conv.shown.amount = <<"1", "0", "0", "0", ".", "0", "0">>
    /\ Conv.fee = DblOfInt(50)
    /\ Conv.shown.fee = <<"5", "0", ".", "0", "0">>
    /\ Conv.netPHP = DblOfInt(950)
    /\ Conv.shown.net = <<"9", "5", "0", ".", "0", "0">>
    /\ Conv.shown.usd = <<"1", "6", ".", "3", "1">>
    /\ RoundedQuotient(1631, 9500000, 582554)
    /\ Conv.shown.eur = <<"1", "4", ".", "0", "5">>
    /\ RoundedQuotient(1405, 9500000, 676375)
    /\ Conv.shown.jpy = <<"2", "4", "8", "8", ".", "2", "1">>
    /\ RoundedQuotient(248821, 9500000, 3818)
    /\ Conv.shown.aud = <<"2", "4", ".", "8", "0">>
    /\ RoundedQuotient(2480, 9500000, 383071)
    /\ Conv.usd = DblDiv(Conv.netPHP, Decimal(582554, 4))
    /\ Conv.eur = DblDiv(Conv.netPHP, Decimal(676375, 4))
    /\ Conv.jpy = DblDiv(Conv.netPHP, Decimal(3818, 4))
    /\ Conv.aud = DblDiv(Conv.netPHP, Decimal(383071, 4))

\* the amount 1000 was confirmed and its conversion displayed
C8_Witness ==
  /\ Converting
  /\ Conv.amountInPHP = DblOfInt(1000)
  /\ rd.at = "cur_confirm" /\ rd.yes

\* |a - b| for natural numbers
BigDist(a, b) == IF BigCmp(a, b) >= 0 THEN BigSub(a, b) ELSE BigSub(b, a)

\* the mantissa of the double x >= 0 at the exponent lo <= x.e
MantissaAt(x, lo) == BigShl(x.m, x.e - lo)

\* the smallest exponent of the doubles x, y, z
LowExp(x, y, z) ==
  IF x.e <= y.e /\ x.e <= z.e THEN x.e ELSE IF y.e <= z.e THEN y.e ELSE z.e

\* fee + net = amount to half a unit in the last place of amount, and
\* 100 * fee = 5 * amount, 100 * net = 95 * amount to one unit in the last
\* place of amount: the equations hold as far as doubles can hold them
FeeNetRounded(amount, fee, net) ==
  With(LowExp(amount, fee, net),
       LAMBDA lo :
         With2(<<MantissaAt(amount, lo), BigShl(<<1>>, amount.e - lo)>>,
               <<MantissaAt(fee, lo), MantissaAt(net, lo)>>,
               LAMBDA au, fn :
                 /\ BigCmp(BigMulSmall(BigDist(BigAdd(fn[1], fn[2]), au[1]), 2),
                           au[2]) <= 0
                 /\ BigCmp(BigDist(BigMulSmall(fn[1], 100), BigMulSmall(au[1], 5)),
                           BigMulSmall(au[2], 100)) <= 0
                 /\ BigCmp(BigDist(BigMulSmall(fn[2], 100), BigMulSmall(au[1], 95)),
                           BigMulSmall(au[2], 100)) <= 0))

\* fee + net = amount, 100 * fee = 5 * amount and 100 * net = 95 * amount as
\* equations between the numbers the three doubles hold
FeeNetExact(amount, fee, net) ==
  With(LowExp(amount, fee, net),
       LAMBDA lo :
         With2(MantissaAt(amount, lo),
               <<MantissaAt(fee, lo), MantissaAt(net, lo)>>,
               LAMBDA au, fn :
                 /\ BigCmp(BigAdd(fn[1], fn[2]), au) = 0
                 /\ BigCmp(BigMulSmall(fn[1], 100), BigMulSmall(au, 5)) = 0
                 /\ BigCmp(BigMulSmall(fn[2], 100), BigMulSmall(au, 95)) = 0))

\* C9 as stated: every confirmed amount is in [100, 100000]; fee = amount *
\* 0.05, net = amount - fee, so fee + net = amount and net = 95% of amount,
\* and each of the four converted amounts is net / rate, from the net and
\* not the gross.
C9_FeeNetConverted_AsStated ==
  Converting =>
    /\ rd.at = "cur_confirm" /\ rd.ok /\ rd.yes
    /\ InRangeDouble(Conv.amountInPHP, DblOfInt(100), DblOfInt(100000))
    /\ Conv.fee = DblMul(Conv.amountInPHP, Decimal(5, 2))
    /\ Conv.netPHP = DblSub(Conv.amountInPHP, Conv.fee)
    /\ FeeNetExact(Conv.amountInPHP, Conv.fee, Conv.netPHP)
    /\ DblAdd(Conv.fee, Conv.netPHP) = Conv.amountInPHP
    /\ Conv.usd = DblDiv(Conv.netPHP, Decimal(582554, 4))
    /\ Conv.eur = DblDiv(Conv.netPHP, Decimal(676375, 4))
    /\ Conv.jpy = DblDiv(Conv.netPHP, Decimal(3818, 4))
    /\ Conv.aud = DblDiv(Conv.netPHP, Decimal(383071, 4))

\* C9 (amended): every confirmed amount is in [100, 100000]; fee = amount *
\* 0.05 and net = amount - fee are computed in double arithmetic, so that
\* fee + net = amount and net = 95% of amount hold up to its rounding (fee +
\* net within half a unit in the last place of amount, fee and net within
\* one such unit of 5% and 95% of amount), and each of the four converted
\* amounts is net / rate, from the net and not the gross.
C9_FeeNetConverted ==
  /\ (rd.at = "cur_confirm" /\ rd.ok /\ rd.yes) => Converting
  /\ Converting =>
       /\ rd.at = "cur_confirm" /\ rd.ok /\ rd.yes
       /\ InRangeDouble(Conv.amountInPHP, DblOfInt(100), DblOfInt(100000))
       /\ Conv.fee = DblMul(Conv.amountInPHP, Decimal(5, 2))
       /\ Conv.netPHP = DblSub(Conv.amountInPHP, Conv.fee)
       /\ FeeNetRounded(Conv.amountInPHP, Conv.fee, Conv.netPHP)
       /\ Conv.netPHP # Conv.amountInPHP
       /\ Conv.usd = DblDiv(Conv.netPHP, Decimal(582554, 4))
       /\ Conv.eur = DblDiv(Conv.netPHP, Decimal(676375, 4))
       /\ Conv.jpy = DblDiv(Conv.netPHP, Decimal(3818, 4))
       /\ Conv.aud = DblDiv(Conv.netPHP, Decimal(383071, 4))

\* the amount 100.21, whose fee and net amount are rounded by the double
\* arithmetic, was confirmed and converted
C9_Witness ==
  /\ Converting
  /\ rd.at = "cur_confirm" /\ rd.yes
  /\ Conv.amountInPHP = Decimal(10021, 2)
  /\ Conv.shown.fee = <<"5", ".", "0", "1">>
  /\ Conv.shown.net = <<"9", "5", ".", "2", "0">>
  /\ DblAdd(Conv.fee, Conv.netPHP) # Conv.amountInPHP
  /\ ~FeeNetExact(Conv.amountInPHP, Conv.fee, Conv.netPHP)

\* the confirmation was answered n or no
Declined == rd.at = "cur_confirm" /\ rd.ok /\ ~rd.yes

C10_Cancelled ==
  Declined =>
    /\ LowerCase(rd.tok) \in NoWords
    /\ out.msg = <<"Transaction cancelled.">>
    /\ out.conv = <<>>
    /\ out.called = <<>>
    /\ pc = "pause_ignore"
    /\ Top = "CurrencyExchangeCalculator::run"

\* the pause inside the Currency activity ends at the Currency sub-menu
C10_BackToSubMenu ==
  (Top = "CurrencyExchangeCalculator::run" /\ InPause /\ pc' # pc) =>
     /\ pc' \in {"pause_get", "cur_choice"}
     /\ stack' = stack
     /\ pc' = "cur_choice" => out'.menu = "cur"

\* C10: when the confirmation is answered n or no, 'Transaction cancelled.'
\* is shown, no fee, net or converted amount is computed, displayConversion
\* is not invoked, and control returns to the Currency sub-menu.
C10_NoAborts == [](C10_Cancelled) /\ [][C10_BackToSubMenu]_vars

\* the confirmation was declined and the cancellation message shown
C10_Witness ==
  /\ Declined
  /\ out.msg = <<"Transaction cancelled.">>

---------------------------------------------------------------------------
(* Student Grade Evaluator *)

\* the report the last step printed
Report == out.grade[1]
Reported == out.grade # <<>>

\* the sum of the grades as the loop adds them
SumOf(v) == DblAdd(DblAdd(DblAdd(DblAdd(NoSum, v[1]), v[2]), v[3]), v[4])

\* while a grade is asked for, i of them were read and stored
C11_Asking ==
  pc = "grade_read" =>
    /\ gi \in 0..3
    /\ Top = "StudentGradeEvaluator::run"
    /\ \A i \in (gi + 1)..4 : grades[i] = DblOfInt(0)
    /\ sum = SumOf(grades)

\* the arithmetic mean of the four grades v (none negative) is at least n:
\* the sum of the mantissas at the lowest exponent against 4 * n
MeanAtLeast(v, n) ==
  With(IF LowExp(v[1], v[2], v[3]) <= v[4].e
       THEN LowExp(v[1], v[2], v[3]) ELSE v[4].e,
       LAMBDA lo :
         With2(BigAdd(MantissaAt(v[1], lo), MantissaAt(v[2], lo)),
               BigAdd(MantissaAt(v[3], lo), MantissaAt(v[4], lo)),
               LAMBDA a, b :
                 BigCmp(BigAdd(a, b), BigShl(Big(4 * n), -lo)) >= 0))

\* the report is about the four grades read, each in [0,100], and the remark
\* is the passing one exactly when their mean is at least 80
C11_Report ==
  Reported =>
    LET v == Report.values
    IN  /\ rd.at = "grade_read" /\ rd.ok /\ rd.num = v[4]
        /\ gi = 4
        /\ v = grades
        /\ Report.names = <<"Prelim", "Midterm", "PreFinal", "Final">>
        /\ \A i \in 1..4 : InRangeDouble(v[i], DblOfInt(0), DblOfInt(100))
        /\ Report.pass <=> MeanAtLeast(v, 80)
        /\ v = [i \in 1..4 |-> DblOfInt(80)] => Report.pass
        /\ v = [i \in 1..4 |-> DblOfInt(0)] => ~Report.pass
        /\ v = <<DblOfInt(100), DblOfInt(100), DblOfInt(60), DblOfInt(100)>>
             => Report.pass

\* a step at a grade prompt: an accepted score is stored as the next grade
\* and the report follows the fourth; a rejected one changes nothing
C11_Step ==
  (pc = "grade_read" /\ rd'.kind # "none") =>
    /\ rd'.kind = "double" /\ rd'.min = 0 /\ rd'.max = 100
    /\ rd'.ok =>
         /\ gi' = gi + 1
         /\ grades' = [grades EXCEPT ![gi + 1] = rd'.num]
         /\ (gi' = 4) <=> out'.grade # <<>>
         /\ (gi' < 4) <=> pc' = "grade_read"
    /\ ~rd'.ok => gi' = gi /\ grades' = grades /\ pc' = "grade_read"
                  /\ out'.grade = <<>>

\* C11: the Grade Evaluator reads exactly four validated scores per
\* invocation, in the order Prelim, Midterm, PreFinal, Final, each in
\* [0,100], and reports pass iff their mean (sum/4, no rounding) is >= 80;
\* (80,80,80,80) passes, (0,0,0,0) fails, (100,100,60,100) passes.
C11_GradeEvaluator == [](C11_Asking /\ C11_Report) /\ [][C11_Step]_vars

---------------------------------------------------------------------------
(* Triangle Loop Activity *)

\* the line lengths of a right triangle and of an inverted triangle
RightRows(h, rows) == Len(rows) = h /\ \A i \in 1..h : rows[i] = i
InvertedRows(h, rows) == Len(rows) = h /\ \A i \in 1..h : rows[i] = h - i + 1

\* C12: for every height h in [1,20], displayRightTriangle(h) outputs h
\* lines, line i holding i '*', and displayInvertedTriangle(h) outputs h
\* lines, line i holding h - i + 1 '*'; for h = 3 the lengths are [1,2,3] and
\* [3,2,1].  Checked for the two functions on every height whenever the
\* program asks for a height, and for every triangle the program draws.
C12_TriangleRows ==
  /\ pc = "tri_height" =>
       /\ \A h \in 1..20 : /\ RightRows(h, displayRightTriangle(h))
                           /\ InvertedRows(h, displayInvertedTriangle(h))
       /\ displayRightTriangle(3) = <<1, 2, 3>>
       /\ displayInvertedTriangle(3) = <<3, 2, 1>>
  /\ \A k \in 1..Len(out.drawn) :
       LET t == out.drawn[k]
       IN  /\ t.h \in 1..20
           /\ t.shape = "Right Triangle" => RightRows(t.h, t.rows)
           /\ t.shape = "Inverted Triangle" => InvertedRows(t.h, t.rows)
           /\ t.shape \in {"Right Triangle", "Inverted Triangle"}

\* both triangles were drawn with height 3
C12_Witness ==
  /\ rd.at = "tri_height" /\ rd.ok /\ rd.val = 3
  /\ Len(out.drawn) = 2
  /\ out.drawn[1].rows = <<1, 2, 3>>
  /\ out.drawn[2].rows = <<3, 2, 1>>

---------------------------------------------------------------------------
(* Termination *)

\* the program has ended exactly when main has returned, and it returns 0
C13_Ended ==
  /\ exitCode \in {-1, 0}
  /\ (pc = "done") <=> (exitCode = 0)
  /\ pc = "done" => /\ stack = <<>>
                    /\ mainChoice = 5
                    /\ rd.at = "main_choice" /\ rd.ok /\ rd.val = 5
                    /\ out.msg = <<"Exiting program... Goodbye!">>
  /\ eof => pc # "done"

\* the only step that ends the program is the main menu reading 5; leaving
\* a sub-menu or finishing an activity goes back to the main menu
C13_OnlyExit ==
  /\ pc' = "done" =>
       \/ pc = "done"
       \/ pc = "main_choice" /\ rd'.ok /\ rd'.val = 5 /\ Len(stack) = 1
  /\ (pc = "tri_choice" /\ rd'.ok /\ rd'.val = 4) =>
       pc' = "main_choice" /\ stack' = <<"Program::run">> /\ exitCode' = -1
  /\ (pc = "cur_choice" /\ rd'.ok /\ rd'.val = 3) =>
       pc' = "main_choice" /\ stack' = <<"Program::run">> /\ exitCode' = -1
  /\ (pc = "pause_get" /\ pc' # pc
        /\ Top \in {"VirtualStudentInfo::run", "StudentGradeEvaluator::run"}) =>
       pc' = "main_choice" /\ stack' = <<"Program::run">> /\ exitCode' = -1
  /\ (pc = "main_choice" /\ rd'.kind # "none" /\ ~(rd'.ok /\ rd'.val = 5)) =>
       pc' # "done" /\ exitCode' = -1
  /\ eof => pc' # "done"

\* C13: the process terminates only after the main menu has read the
\* validated choice 5, and then main returns 0; leaving a sub-menu or
\* finishing an activity returns to the main menu and never ends the
\* process, and an execution in which the main menu never reads 5 (its input
\* may end) never terminates.
C13_ExitOnlyByChoice5 == [](C13_Ended) /\ [][C13_OnlyExit]_vars

\* the main menu read 5 after an activity had been run, and main returned 0
C13_Witness ==
  /\ pc = "done"
  /\ exitCode = 0
  /\ rd.val = 5
  /\ typed >= 3

---------------------------------------------------------------------------
(* View Rates *)

\* the rates were shown by the last step
RatesShown == out.rates # <<>>
Rates == out.rates[1]

\* C14: viewing rates is idempotent: every invocation of View Rates prints
\* the same numbers (0.0172, 0.0148, 2.6192, 0.0261 and 5%), whatever ran
\* before it: another view, a conversion, a grade evaluation.
C14_RatesIdempotent ==
  RatesShown =>
    /\ Rates.text = displayRates(DefaultFormat).text
    /\ Rates.text = [usd |-> <<"0", ".", "0", "1", "7", "2">>,
                     eur |-> <<"0", ".", "0", "1", "4", "8">>,
                     jpy |-> <<"2", ".", "6", "1", "9", "2">>,
                     aud |-> <<"0", ".", "0", "2", "6", "1">>,
                     fee |-> <<"5">>]
    /\ fmt = [Rates.was EXCEPT !.fixed = TRUE, !.prec = 0]

\* the rates are viewed right after an earlier view (which left the
\* precision at 0), and a conversion had been run before that
C14_Witness ==
  /\ RatesShown
  /\ Rates.was.fixed /\ Rates.was.prec = 0 /\ Rates.was.left
  /\ rd.at = "cur_choice" /\ rd.val = 2

---------------------------------------------------------------------------
(* State carried from one activity to the next *)

\* C15: no state carries over between activity invocations: the 'Your
\* average' value of the Grade Evaluator and the bounds of the 'Value must be
\* between min and max' message are printed as in a fresh process (the
\* default number format), whether or not View Rates or a conversion was run
\* earlier.
C15_NoCarryOver ==
  /\ Reported =>
       Report.shown = Show(Report.average, DefaultFormat)
  /\ out.range # <<>> =>
       out.range = RangeMessage(DblOfInt(rd.min), DblOfInt(rd.max), DefaultFormat)

---------------------------------------------------------------------------
(* The Triangle sub-menu *)

\* the height prompt follows a validated choice of 1, 2 or 3 and nothing
\* else; choice 4 leaves the activity and draws nothing
C16_HeightAsked ==
  /\ (pc # "tri_height" /\ pc' = "tri_height") =>
        /\ pc = "tri_choice"
        /\ rd'.at = "tri_choice" /\ rd'.ok /\ rd'.val \in 1..3
        /\ triChoice' = rd'.val
  /\ (rd'.at = "tri_choice" /\ rd'.ok) =>
        /\ (pc' = "tri_height") = (rd'.val \in 1..3)
        /\ rd'.val = 4 => pc' = "main_choice" /\ out'.drawn = <<>>
  /\ (pc = "tri_height" /\ pc' = "tri_height") => triChoice' = triChoice
  /\ out'.drawn # <<>> => pc = "tri_height" /\ rd'.at = "tri_height" /\ rd'.ok

\* what is drawn uses the one height just read, which is in [1,20]; Both
\* draws the right triangle and then the inverted one
C16_Drawn ==
  out.drawn # <<>> =>
    /\ height = rd.val
    /\ height \in MIN_HEIGHT..MAX_HEIGHT
    /\ \A k \in 1..Len(out.drawn) : out.drawn[k].h = height
    /\ triChoice = 3 =>
         /\ Len(out.drawn) = 2
         /\ out.drawn[1].shape = "Right Triangle"
         /\ RightRows(height, out.drawn[1].rows)
         /\ out.drawn[2].shape = "Inverted Triangle"
         /\ InvertedRows(height, out.drawn[2].rows)
    /\ triChoice \in {1, 2} => Len(out.drawn) = 1

\* C16: in the Triangle sub-menu a height is requested if and only if the
\* validated choice is 1, 2 or 3; the height used for drawing is in [1,20];
\* choice 3 draws the right triangle and then the inverted triangle, both
\* with the single height read for that choice.
C16_TriangleMenu == [](C16_Drawn) /\ [][C16_HeightAsked]_vars

\* Both was chosen and drawn with height 12
C16_Witness ==
  /\ triChoice = 3
  /\ rd.at = "tri_height" /\ rd.ok /\ height = 12
  /\ Len(out.drawn) = 2
  /\ out.drawn[1].shape = "Right Triangle"
  /\ out.drawn[2].shape = "Inverted Triangle"

---------------------------------------------------------------------------
(* Empty lines at a prompt *)

ReadPcs == {"main_choice", "grade_read", "tri_choice", "tri_height",
            "cur_choice", "cur_amount", "cur_confirm"}

\* an empty or whitespace-only line has been entered at a validated-read
\* prompt and nothing of it has been read yet
BlankEntered ==
  /\ pc \in ReadPcs
  /\ typed > 0
  /\ line.pre = <<>>
  /\ HasNL(inp)
  /\ ~HasToken(inp)

\* C17: an empty or whitespace-only input line entered at a validated-read
\* prompt is treated as a parse failure: the next thing that happens is
\* that the read rejects it, prints the '[ERROR]' message and shows the same
\* prompt again; the reader does not skip the line and keep waiting.
C17_Rejects ==
  BlankEntered =>
    /\ rd'.at = pc
    /\ ~rd'.ok
    /\ rd'.err = "invalid"
    /\ out'.err = "invalid"
    /\ pc' = pc

C17_BlankLineRejected == [][C17_Rejects]_vars

---------------------------------------------------------------------------
(* Retrying reads *)

NumberPcs == {"main_choice", "grade_read", "tri_choice", "tri_height",
              "cur_choice", "cur_amount"}

\* the value a line of plain decimal digits denotes
RECURSIVE NumeralValue(_)
NumeralValue(s) ==
  IF s = <<>> THEN 0
  ELSE NumeralValue(SubSeq(s, 1, Len(s) - 1)) * 10 + DigitVal(s[Len(s)])

PlainDigits(s) == s # <<>> /\ Len(s) <= 6 /\ \A i \in 1..Len(s) : IsDigit(s[i])

\* the line s is exactly one well-formed number (digits, for a double also
\* digits '.' one or two digits); its value, for a double in hundredths,
\* or -1
LineValue(kind, s) ==
  LET d == RunLen(s, 1, {"."}, TRUE)
      ip == Take(s, d)
      fp == Drop(s, d + 1)
  IN  IF PlainDigits(s) THEN NumeralValue(s) * (IF kind = "double" THEN 100 ELSE 1)
      ELSE IF kind = "double" /\ PlainDigits(ip) /\ PlainDigits(fp) /\ Len(fp) <= 2
        THEN NumeralValue(ip) * 100
             + NumeralValue(fp) * (IF Len(fp) = 1 THEN 10 ELSE 1)
      ELSE -1

\* the attempt just made read a line that holds exactly one well-formed
\* in-range value, entered at the prompt
GoodLineRead ==
  /\ rd.kind \in {"choice", "double"}
  /\ ~rd.pause
  /\ ~rd.rem
  /\ LineValue(rd.kind, rd.whole) # -1
  /\ rd.kind = "choice" => LineValue(rd.kind, rd.whole) \in rd.min..rd.max
  /\ rd.kind = "double" =>
       LineValue(rd.kind, rd.whole) \in (rd.min * 100)..(rd.max * 100)

\* a rejected attempt is the first one made on its line, so each rejected
\* line prints one '[ERROR]' message; a good line is returned
C18_Count ==
  /\ (rd.kind \in {"choice", "double"} /\ ~rd.ok /\ ~eof) =>
        /\ rd.err \in {"invalid", "range"}
        /\ out.err = rd.err
        /\ ~rd.rej
  /\ GoodLineRead =>
        /\ rd.ok
        /\ rd.kind = "choice" => rd.val = LineValue(rd.kind, rd.whole)
        /\ rd.kind = "double" => rd.num = Decimal(LineValue(rd.kind, rd.whole), 2)

\* a rejected attempt stays in the reading function: the same prompt, the
\* same caller, nothing else changed
C18_Absorbed ==
  (rd'.kind \in {"choice", "double"} /\ ~rd'.ok) =>
     /\ pc \in NumberPcs
     /\ pc' = pc
     /\ stack' = stack
     /\ UNCHANGED <<fmt, progVars, exitCode>>

\* C18: every validated read returns under unbounded retry: after any
\* finite sequence of rejected lines, a line holding exactly one well-formed
\* in-range value is returned by getValidatedChoice / getValidatedDouble;
\* exactly one '[ERROR]' line is printed per rejected line, and a rejection
\* never reaches the caller.
C18_RetryReturns == [](C18_Count) /\ [][C18_Absorbed]_vars

===========================================================================
